---- MODULE Spec2Model ----
(***************************************************************************)
(* A model of tld-data's aggregation pipeline (src/fetch.js, src/utils.js, *)
(* src/cli.js): the four extractors and getTLDData's merge.                *)
(*                                                                         *)
(* Text.  A JavaScript string is modelled as a sequence of characters.  A  *)
(* character is a TLA+ string: an ASCII character is the one-character     *)
(* string of itself ("a", ".", "\t"); any other character is the decimal   *)
(* numeral of its code point ("8207" is U+200F, "54620" is U+D55C).        *)
(* Chars("com.") = <<"c", "o", "m", ".">>.                                 *)
(*                                                                         *)
(* Documents.  An HTML document is modelled after JSDOM has parsed it: as  *)
(* the rows and cell texts (textContent) the selectors of the code return. *)
(***************************************************************************)
EXTENDS Integers, Sequences, FiniteSets, TLC

VARIABLES
  rzResp,    \* getTLDsFromRootZone: the response fetch() resolves to
  rzRet,     \* getTLDsFromRootZone: its outcome (returned value or throw)
  ianaResp,  \* getTLDInfoFromIANADB: the response fetch() resolves to
  ianaRet,   \* getTLDInfoFromIANADB: its outcome
  agTLD,     \* gTLDInfoFromRegistryAgreement: its argument gTLD
  agPc,      \* gTLDInfoFromRegistryAgreement: where the call stands
  agPage,    \* the response of its first fetch (the landing page)
  agDoc,     \* the response of its second fetch (the agreement document)
  agFetches, \* the URLs it has fetched, in order
  agRet,     \* gTLDInfoFromRegistryAgreement: its outcome
  stResp,    \* getTLDsWithStatusPeriods: the response fetch() resolves to
  stNow,     \* getTLDsWithStatusPeriods: the instant dayjs() yields
  stRet,     \* getTLDsWithStatusPeriods: its outcome
  gdPc,      \* getTLDData: the await it stands at
  prevData,  \* getTLDData: its argument
  gdZone,    \* the root zone response its run got
  gdIana,    \* the IANA response its run got
  gdStatus,  \* the status-period response its run got
  gdNow,     \* the instant at which the status periods were evaluated
  tlds,      \* getTLDData: the records (objects) of tlds
  gdTask,    \* mapLimit: where the iteratee of each record stands
  gdInfo,    \* per record, what its registry-agreement lookup has found
  gdFetches, \* the registry-agreement fetches issued: [task, gTLD, url], in order
  gdRet,     \* getTLDData: its outcome
  fSite,     \* fetch: the call site whose GET it performs
  fPc,       \* fetch: where the call stands
  fAttempt,  \* fetch: fetch-retry's attempt counter
  fLog,      \* fetch: the outcome of every attempt so far, in order
  fDelays,   \* fetch: the delays (ms) of the retries scheduled, in order
  fRet,      \* fetch: what its promise settled with
  cliPc,     \* cli.js main(): where it stands
  stdout     \* what has been written to process.stdout, in order

rzVars == <<rzResp, rzRet>>
ianaVars == <<ianaResp, ianaRet>>
agVars == <<agTLD, agPc, agPage, agDoc, agFetches, agRet>>
stVars == <<stResp, stNow, stRet>>
gdVars == <<gdPc, prevData, gdZone, gdIana, gdStatus, gdNow, tlds, gdTask,
           gdInfo, gdFetches, gdRet>>
fetchVars == <<fSite, fPc, fAttempt, fLog, fDelays, fRet>>
cliVars == <<cliPc, stdout>>
vars == <<rzVars, ianaVars, agVars, stVars, gdVars, fetchVars, cliVars>>

\* what an extractor called on its own leaves alone
extractorVars == <<rzVars, ianaVars, agVars, stVars>>
notRzVars == <<ianaVars, agVars, stVars, gdVars, fetchVars, cliVars>>
notIanaVars == <<rzVars, agVars, stVars, gdVars, fetchVars, cliVars>>
notAgVars == <<rzVars, ianaVars, stVars, gdVars, fetchVars, cliVars>>
notStVars == <<rzVars, ianaVars, agVars, gdVars, fetchVars, cliVars>>
notGdVars == <<extractorVars, fetchVars, cliVars>>
notFetchVars == <<extractorVars, gdVars, cliVars>>

(***************************************************************************)
(* Bounds of the model.                                                    *)
(***************************************************************************)
\* the root zone documents enumerated have 0..MaxZoneLines lines
MaxZoneLines == 2
\* the status-period tables enumerated have 0..MaxStatusRows rows
MaxStatusRows == 2
\* the root zones of getTLDData's runs have 0..MaxTLDLines lines
MaxTLDLines == 2
\* the IANA tables enumerated have 0..MaxIanaRows rows
MaxIanaRows == 2
\* the fan-outs enumerated on their own have 0..MaxLookups generic records
MaxLookups == 6

(***************************************************************************)
(* JavaScript strings.                                                     *)
(***************************************************************************)
Chars(s) == [i \in 1..Len(s) |-> SubSeq(s, i, i)]

\* const v = e; F(v): e is evaluated once and F gets its value
With(e, F(_)) == CHOOSE r \in {F(v) : v \in {e}} : TRUE

\* the value a call has not produced (yet)
None == [kind |-> "none"]
\* a normal completion with value v; an abrupt one (a throw) with message m
Return(v) == [kind |-> "return", value |-> v]
Throw(m) == [kind |-> "throw", message |-> m]

\* /\s/ and String.prototype.trim()'s white space, over the characters used:
\* TAB, LF, VT(11), FF, CR, SPACE, NBSP (U+00A0), BOM (U+FEFF)
IsWhitespace(c) == c \in {"\t", "\n", "\f", "\r", " ", "160", "65279"}

\* s.search(/\s/) / s.indexOf(ch): 0-based index of the first match, or -1
SearchWhitespace(s) ==
  IF \E i \in 1..Len(s) : IsWhitespace(s[i])
  THEN (CHOOSE i \in 1..Len(s) :
          IsWhitespace(s[i]) /\ \A j \in 1..(i-1) : ~IsWhitespace(s[j])) - 1
  ELSE -1

IndexOf(s, ch) ==
  IF \E i \in 1..Len(s) : s[i] = ch
  THEN (CHOOSE i \in 1..Len(s) : s[i] = ch /\ \A j \in 1..(i-1) : s[j] # ch) - 1
  ELSE -1

LastIndexOf(s, ch) ==
  IF \E i \in 1..Len(s) : s[i] = ch
  THEN (CHOOSE i \in 1..Len(s) :
          s[i] = ch /\ \A j \in (i+1)..Len(s) : s[j] # ch) - 1
  ELSE -1

\* s.slice(0, end): a negative end counts from the end of the string
Slice0(s, end) ==
  LET e == IF end < 0 THEN (IF Len(s) + end < 0 THEN 0 ELSE Len(s) + end)
           ELSE (IF end > Len(s) THEN Len(s) ELSE end)
  IN SubSeq(s, 1, e)

\* s.slice(start) for start >= 0
SliceFrom(s, start) == SubSeq(s, start + 1, Len(s))

StartsWith(s, prefix) ==
  Len(s) >= Len(prefix) /\ SubSeq(s, 1, Len(prefix)) = prefix

\* text.split(sep) for a one-character separator: the pieces between the
\* separators (at, with the two ends), always at least one piece
Split(text, sep) ==
  With(text, LAMBDA s :
    With(<<0>> \o SelectSeq([i \in 1..Len(s) |-> i], LAMBDA i : s[i] = sep)
               \o <<Len(s) + 1>>, LAMBDA at :
      [k \in 1..(Len(at) - 1) |-> SubSeq(s, at[k] + 1, at[k + 1] - 1)]))

\* arr.join(sep)
RECURSIVE Join(_, _)
Join(arr, sep) ==
  IF arr = <<>> THEN <<>>
  ELSE IF Len(arr) = 1 THEN arr[1]
  ELSE arr[1] \o sep \o Join(Tail(arr), sep)

Range(f) == {f[i] : i \in DOMAIN f}

\* utils.js arrayPrototypeUnique: Array.from(new Set(this)) keeps the first
\* occurrence of every element, in insertion order
RECURSIVE UniqueFrom(_, _)
UniqueFrom(arr, seen) ==
  IF arr = <<>> THEN <<>>
  ELSE IF arr[1] \in seen THEN UniqueFrom(Tail(arr), seen)
  ELSE <<arr[1]>> \o UniqueFrom(Tail(arr), seen \cup {arr[1]})

arrayPrototypeUnique(arr) == UniqueFrom(arr, {})

(***************************************************************************)
(* punycode (the module fetch.js imports): decode, after RFC 3492.         *)
(***************************************************************************)
\* 0-based position of character c in the TLA+ string s, or -1
PosIn(c, s) ==
  IF \E i \in 1..Len(s) : SubSeq(s, i, i) = c
  THEN (CHOOSE i \in 1..Len(s) : SubSeq(s, i, i) = c) - 1
  ELSE -1

IsBasic(c) == Len(c) = 1

\* basicToDigit: 'a'..'z' and 'A'..'Z' are 0..25, '0'..'9' are 26..35, any
\* other character is no digit (the value base)
basicToDigit(c) ==
  IF PosIn(c, "0123456789") >= 0 THEN 26 + PosIn(c, "0123456789")
  ELSE IF PosIn(c, "ABCDEFGHIJKLMNOPQRSTUVWXYZ") >= 0
    THEN PosIn(c, "ABCDEFGHIJKLMNOPQRSTUVWXYZ")
  ELSE IF PosIn(c, "abcdefghijklmnopqrstuvwxyz") >= 0
    THEN PosIn(c, "abcdefghijklmnopqrstuvwxyz")
  ELSE 36

\* adapt(delta, numPoints, firstTime): the bias adaptation
RECURSIVE AdaptLoop(_, _)
AdaptLoop(delta, k) ==
  IF delta > 455 THEN AdaptLoop(delta \div 35, k + 36)
  ELSE k + ((36 * delta) \div (delta + 38))

adapt(delta, numPoints, firstTime) ==
  LET d1 == IF firstTime THEN delta \div 700 ELSE delta \div 2
  IN AdaptLoop(d1 + (d1 \div numPoints), 0)

\* the inner loop of decode: reads one variable-length integer starting at
\* 0-based position index; yields the new i and index, or an error
RECURSIVE DecodeDigits(_, _, _, _, _, _)
DecodeDigits(input, index, i, w, k, bias) ==
  IF index >= Len(input) THEN [ok |-> FALSE, error |-> "invalid-input"]
  ELSE
    LET digit == basicToDigit(input[index + 1])
        t == IF k <= bias THEN 1 ELSE IF k >= bias + 26 THEN 26 ELSE k - bias
    IN IF digit >= 36 \/ digit > (2147483647 - i) \div w
       THEN [ok |-> FALSE, error |-> "overflow"]
       ELSE IF digit < t
       THEN [ok |-> TRUE, i |-> i + digit * w, index |-> index + 1]
       ELSE IF w > 2147483647 \div (36 - t)
       THEN [ok |-> FALSE, error |-> "overflow"]
       ELSE DecodeDigits(input, index + 1, i + digit * w, w * (36 - t),
                         k + 36, bias)

\* output.splice(i, 0, ch)
InsertAt(output, i, ch) ==
  SubSeq(output, 1, i) \o <<ch>> \o SubSeq(output, i + 1, Len(output))

\* the main loop of decode
RECURSIVE DecodeLoop(_, _, _, _, _, _)
DecodeLoop(input, index, i, n, bias, output) ==
  IF index >= Len(input) THEN [ok |-> TRUE, value |-> output]
  ELSE
    LET r == DecodeDigits(input, index, i, 1, 36, bias)
        out == Len(output) + 1
    IN IF ~r.ok THEN r
       ELSE IF r.i \div out > 2147483647 - n
       THEN [ok |-> FALSE, error |-> "overflow"]
       \* String.fromCodePoint rejects a code point above U+10FFFF
       ELSE IF n + (r.i \div out) > 1114111
       THEN [ok |-> FALSE, error |-> "Invalid code point"]
       ELSE DecodeLoop(input, r.index, (r.i % out) + 1, n + (r.i \div out),
                       adapt(r.i - i, out, i = 0),
                       InsertAt(output, r.i % out, ToString(n + (r.i \div out))))

\* punycode.decode(input): [ok |-> TRUE, value |-> string] or a RangeError
punycodeDecode(input) ==
  LET last == LastIndexOf(input, "-")
      basic == IF last < 0 THEN 0 ELSE last
  IN IF \E j \in 1..basic : ~IsBasic(input[j])
     THEN [ok |-> FALSE, error |-> "not-basic"]
     ELSE DecodeLoop(input, IF basic > 0 THEN basic + 1 ELSE 0, 0, 128, 72,
                     SubSeq(input, 1, basic))

(***************************************************************************)
(* fetch.js getTLDsFromRootZone.                                           *)
(***************************************************************************)
XN == Chars("xn--")

\* .map(s => s.slice(0, s.search(/\s/))): search yields -1 on a line without
\* white space, and slice(0, -1) then drops the line's last character
OwnerName(s) == Slice0(s, SearchWhitespace(s))

\* .filter(s => s.indexOf('.') === s.length - 1)
FirstDotIsLast(s) == IndexOf(s, ".") = Len(s) - 1

\* a bug DecodeLabel does not have: the label is passed on undecoded
DecodeLabel_Raw(s) == [ok |-> TRUE, value |-> s]

\* .map(s => s.startsWith('xn--') ? punycode.decode(s.slice(4)) : s)
DecodeLabel(s) ==
  IF StartsWith(s, XN) THEN punycodeDecode(SliceFrom(s, 4))
  ELSE [ok |-> TRUE, value |-> s]

\* the chain up to .filter(s => !!s): the raw labels of the text, in order
RawLabels(text) ==
  LET owners == [i \in DOMAIN Split(text, "\n") |->
                   OwnerName(Split(text, "\n")[i])]
      tldOwners == SelectSeq(owners, FirstDotIsLast)
      stripped == [i \in DOMAIN tldOwners |-> Slice0(tldOwners[i], -1)]
  IN SelectSeq(stripped, LAMBDA s : s # <<>>)

\* the chain up to the decoding .map: one decode outcome per raw label
DecodedLabels(text) ==
  [i \in DOMAIN RawLabels(text) |-> DecodeLabel(RawLabels(text)[i])]

\* `${value}` of a property of an object: a property the object does not
\* have reads as undefined
Interpolate(obj, key) ==
  IF key \in DOMAIN obj THEN obj[key] ELSE Chars("undefined")

\* `Fetch for '${gTLD}'`, `Fetch2 for '${gTLD}'`
FetchFor(what, gTLD) == what \o Chars(" for '") \o gTLD \o <<"'">>

\* `... failed with '${resp.statusCode} ${resp.statusMessage}'`, resp a
\* Response of node-fetch (its properties: ok, status, statusText, ...)
FetchFailedMessage(what, resp) ==
  what \o Chars(" failed with '") \o Interpolate(resp, "statusCode")
       \o <<" ">> \o Interpolate(resp, "statusMessage") \o <<"'">>

\* a bug getTLDsFromRootZone does not have: .unique() before the decoding
getTLDsFromRootZone_UniqueBeforeDecode(resp) ==
  IF ~resp.ok THEN Throw(FetchFailedMessage(Chars("Fetch"), resp))
  ELSE
    LET raw == arrayPrototypeUnique(RawLabels(resp.text))
        decoded == [i \in DOMAIN raw |-> DecodeLabel(raw[i])]
    IN IF \E i \in DOMAIN decoded : ~decoded[i].ok
       THEN Throw("RangeError")
       ELSE Return([i \in DOMAIN decoded |-> decoded[i].value])

\* the whole function, given the response its fetch resolved to; a decode
\* that throws (a RangeError of punycode) rejects the call
getTLDsFromRootZone(resp) ==
  IF ~resp.ok THEN Throw(FetchFailedMessage(Chars("Fetch"), resp))
  ELSE
    LET decoded == DecodedLabels(resp.text)
    IN IF \E i \in DOMAIN decoded : ~decoded[i].ok
       THEN Throw("RangeError")
       ELSE Return(arrayPrototypeUnique(
                     [i \in DOMAIN decoded |-> decoded[i].value]))

(***************************************************************************)
(* Root zone documents: up to MaxZoneLines of these lines, joined by LF.   *)
(***************************************************************************)
Hangul == <<"54620", "44397">>     \* U+D55C U+AD6D, what xn--3e0b707e encodes

ZoneLines ==
  { Chars("com.\t172800\tIN\tNS\ta.gtld-servers.net."),
    Chars("com. 172800 IN DS 30909"),
    Chars(".\t86400\tIN\tSOA\ta.root-servers.net."),
    Chars("a.nic.org.\t172800\tIN\tA\t199.19.56.1"),
    Chars("xn--3e0b707e.\t172800\tIN\tNS\tg.dns.kr."),
    Hangul \o Chars(".\t172800\tIN\tNS\tg.dns.kr."),
    Chars("xn--xn---.\t172800\tIN\tNS\tns.example."),
    Chars("xn--99999999.\t172800\tIN\tNS\tns.example."),
    Chars(""),
    Chars("org."),
    Chars("net.."),
    Chars("; comment") }

RECURSIVE SeqsUpTo(_, _)
SeqsUpTo(S, n) ==
  IF n = 0 THEN {<<>>}
  ELSE SeqsUpTo(S, n - 1) \cup
       {Append(q, x) : q \in {r \in SeqsUpTo(S, n - 1) : Len(r) = n - 1}, x \in S}

ZoneDocs == {Join(ls, <<"\n">>) : ls \in SeqsUpTo(ZoneLines, MaxZoneLines)}

ZoneResponses ==
  {[ok |-> TRUE, status |-> 200, text |-> d] : d \in ZoneDocs} \cup
  {[ok |-> FALSE, status |-> 404, statusText |-> Chars("Not Found"),
     text |-> <<>>]}

(***************************************************************************)
(* The extractor called on its own (as test.js calls it).                  *)
(***************************************************************************)
RootZoneIdle == rzResp = None /\ rzRet = None
IanaIdle == ianaResp = None /\ ianaRet = None

AgreementIdle ==
  /\ agTLD = <<>> /\ agPc = "idle" /\ agPage = None /\ agDoc = None
  /\ agFetches = <<>> /\ agRet = None

StatusIdle == stResp = None /\ stNow = None /\ stRet = None

GetTLDDataIdle ==
  /\ gdPc = "idle" /\ prevData = None /\ gdZone = None /\ gdIana = None
  /\ gdStatus = None /\ gdNow = None /\ tlds = <<>> /\ gdTask = <<>>
  /\ gdInfo = <<>> /\ gdFetches = <<>> /\ gdRet = None

FetchIdle ==
/\ fSite = "" /\ fPc = "idle" /\ fAttempt = 0 /\ fLog = <<>>
  /\ fDelays = <<>> /\ fRet = None

CliIdle == cliPc = "idle" /\ stdout = <<>>

InitRootZone ==
  /\ RootZoneIdle /\ IanaIdle /\ AgreementIdle /\ StatusIdle /\ GetTLDDataIdle
  /\ FetchIdle /\ CliIdle

\* await fetch('http://www.internic.net/domain/root.zone') resolves
RootZoneFetch ==
  /\ rzResp = None
  /\ rzResp' \in ZoneResponses
  /\ UNCHANGED <<rzRet, notRzVars>>

\* the rest of the function runs on the response
RootZoneParse ==
  /\ rzResp # None /\ rzRet = None
  /\ rzRet' = getTLDsFromRootZone(rzResp)
  /\ UNCHANGED <<rzResp, notRzVars>>

NextRootZone == RootZoneFetch \/ RootZoneParse

SpecRootZone == InitRootZone /\ [][NextRootZone]_vars

(***************************************************************************)
(* fetch.js getTLDInfoFromIANADB.  The response carries the rows that      *)
(* querySelectorAll('#tld-table tbody tr') finds: each row is the sequence *)
(* of the textContent of its children.                                     *)
(***************************************************************************)
\* String.prototype.trim(): from the first to the last character that is not
\* white space
Trim(text) ==
  With(text, LAMBDA s :
    With({i \in 1..Len(s) : ~IsWhitespace(s[i])}, LAMBDA keep :
      IF keep = {} THEN <<>>
      ELSE SubSeq(s, CHOOSE i \in keep : \A j \in keep : i <= j,
                     CHOOSE i \in keep : \A j \in keep : j <= i)))

\* U+200F RIGHT-TO-LEFT MARK and U+200E LEFT-TO-RIGHT MARK
RLM == "8207"
LRM == "8206"

\* .replace(/[.\u200F\u200E]/g, ''): every dot and every mark is removed
StripDotsAndMarks(s) == SelectSeq(s, LAMBDA c : c \notin {".", RLM, LRM})

\* a bug IanaTld does not have: the marks are left in
IanaTld_DotsOnly(cell) == SelectSeq(Trim(cell), LAMBDA c : c # ".")

\* tld: tld.trim().replace(/[.\u200F\u200E]/g, '')
IanaTld(cell) == StripDotsAndMarks(Trim(cell))

\* one row: .map(td => td.textContent.trim()) and then the destructuring
\* ([tld, type, sponsor]); a missing cell is undefined and its .trim() throws
IanaRecord(tr) ==
  LET cells == [i \in DOMAIN tr |-> Trim(tr[i])]
  IN IF Len(cells) < 3 THEN Throw("TypeError")
     ELSE Return([tld |-> IanaTld(cells[1]),
                  type |-> Trim(cells[2]),
                  sponsor |-> Trim(cells[3])])

getTLDInfoFromIANADB(resp) ==
  IF ~resp.ok THEN Throw(FetchFailedMessage(Chars("Fetch"), resp))
  ELSE
    LET recs == [i \in DOMAIN resp.rows |-> IanaRecord(resp.rows[i])]
    IN IF \E i \in DOMAIN recs : recs[i].kind = "throw"
       THEN Throw("TypeError")
       ELSE Return([i \in DOMAIN recs |-> recs[i].value])

\* U+0645 U+0648 U+0642 U+0639, the label of test.js's IANA fixture
Mawqi == <<"1605", "1608", "1602", "1593">>

IanaRows ==
  { <<Chars(".aaa"), Chars("generic"), Chars("American Automobile Association, Inc.")>>,
    <<Chars("\n    .aarp\n  "), Chars(" generic "), Chars("AARP\n")>>,
    <<<<RLM, ".">> \o Mawqi \o <<LRM>>, Chars("generic"),
      Chars("Suhub Electronic Establishment")>>,
    <<Chars(".uk"), Chars("country-code"), Chars("Nominet UK")>>,
    <<Chars(". com"), Chars("generic"), Chars("VeriSign Global Registry Services")>>,
    <<Chars(".museum"), Chars("sponsored")>>,
    <<Chars(".arpa"), Chars("infrastructure"), Chars("Internet Architecture Board (IAB)"),
      Chars("extra")>>,
    <<Chars(".test"), Chars("test"), Chars("")>> }

IanaResponses ==
  {[ok |-> TRUE, status |-> 200, rows |-> rs] :
     rs \in SeqsUpTo(IanaRows, MaxIanaRows)} \cup
  {[ok |-> FALSE, status |-> 503, statusText |-> Chars("Service Unavailable"),
     rows |-> <<>>]}

\* await fetch('https://www.iana.org/domains/root/db') resolves
IanaFetch ==
  /\ ianaResp = None
  /\ ianaResp' \in IanaResponses
  /\ UNCHANGED <<ianaRet, notIanaVars>>

\* the rest of the function runs on the response
IanaParse ==
  /\ ianaResp # None /\ ianaRet = None
  /\ ianaRet' = getTLDInfoFromIANADB(ianaResp)
  /\ UNCHANGED <<ianaResp, notIanaVars>>

NextIana == IanaFetch \/ IanaParse

SpecIana == InitRootZone /\ [][NextIana]_vars

(***************************************************************************)
(* fetch.js gTLDInfoFromRegistryAgreement.  The landing page is modelled   *)
(* by what the three selectors find in it: '#agmthtml a' (with its href),  *)
(* '#spec13' and '#spec9' (with its textContent).                          *)
(***************************************************************************)
NoElement == [present |-> FALSE]
Anchor(href) == [present |-> TRUE, href |-> href]
Element(text) == [present |-> TRUE, textContent |-> text]

\* text.includes(pattern)
Includes(text, pattern) ==
  \E i \in 1..(Len(text) - Len(pattern) + 1) :
    SubSeq(text, i, i + Len(pattern) - 1) = pattern

\* the case folding of a regular expression with the i flag, on ASCII letters
ToUpperAscii(c) ==
  IF PosIn(c, "abcdefghijklmnopqrstuvwxyz") >= 0
  THEN SubSeq("ABCDEFGHIJKLMNOPQRSTUVWXYZ",
              PosIn(c, "abcdefghijklmnopqrstuvwxyz") + 1,
              PosIn(c, "abcdefghijklmnopqrstuvwxyz") + 1)
  ELSE c

\* a bug MatchesWithdrawal does not have: the match is case-sensitive
MatchesWithdrawal_CaseSensitive(text) == Includes(text, Chars("withdrawal"))

\* text.match(/withdrawal/i)
MatchesWithdrawal(text) ==
  Includes([i \in DOMAIN text |-> ToUpperAscii(text[i])], Chars("WITHDRAWAL"))

LandingURL(gTLD) ==
  Chars("https://www.icann.org/en/about/agreements/registries/") \o gTLD

AgreementURL(href) == Chars("https://www.icann.org") \o href

\* `'#agmthtml a' on ${gTLD} should be present`
ShouldBePresentMessage(gTLD) ==
  Chars("'#agmthtml a' on ") \o gTLD \o Chars(" should be present")

\* a bug AgreementLanding does not have: the anchor is not asserted, and
\* without it the href read is null
AgreementLanding_NoAssert(gTLD, resp) ==
  IF ~resp.ok THEN Throw(FetchFailedMessage(FetchFor(Chars("Fetch"), gTLD), resp))
  ELSE [kind |-> "await", gTLD |-> gTLD,
        hasSpec13 |-> resp.page.spec13.present,
        hasSpec9Exemption |->
          resp.page.spec9.present /\
          ~MatchesWithdrawal(resp.page.spec9.textContent),
        url |-> AgreementURL(IF resp.page.agmthtml.present
                             THEN resp.page.agmthtml.href ELSE Chars("null"))]

\* the function from its first await to its second: the outcome of the
\* landing page, a throw or the findings the function holds while it awaits
\* the agreement document
AgreementLanding(gTLD, resp) ==
  IF ~resp.ok THEN Throw(FetchFailedMessage(FetchFor(Chars("Fetch"), gTLD), resp))
  ELSE IF ~resp.page.agmthtml.present
    THEN Throw(ShouldBePresentMessage(gTLD))
  ELSE [kind |-> "await", gTLD |-> gTLD,
        hasSpec13 |-> resp.page.spec13.present,
        hasSpec9Exemption |->
          resp.page.spec9.present /\
          ~MatchesWithdrawal(resp.page.spec9.textContent),
        url |-> AgreementURL(resp.page.agmthtml.href)]

\* the function after its second await
AgreementResult(landing, resp2) ==
  IF ~resp2.ok
  THEN Throw(FetchFailedMessage(FetchFor(Chars("Fetch2"), landing.gTLD), resp2))
  ELSE Return([hasSpec13 |-> landing.hasSpec13,
               hasSpec12 |-> Includes(resp2.text, Chars("SPECIFICATION 12")),
               hasSpec9Exemption |-> landing.hasSpec9Exemption])

LandingPages ==
  [agmthtml : {NoElement, Anchor(Chars("/agreement/dummytld1")),
               Anchor(Chars("/sites/default/files/tlds/kr/kr-agmt-html.htm"))},
   spec13 : {NoElement, Element(Chars("Specification 13"))},
   spec9 : {NoElement,
            Element(Chars("Specification 9 Code of Conduct Exemption")),
            Element(Chars("Code of Conduct Exemption Withdrawal Notice")),
            Element(Chars("WITHDRAWAL of Specification 9 Exemption")),
            Element(Chars(""))}]

LandingResponses ==
  {[ok |-> TRUE, status |-> 200, page |-> pg] : pg \in LandingPages} \cup
  {[ok |-> FALSE, status |-> 404, statusText |-> Chars("Not Found"),
     page |-> NoElement]}

AgreementTexts ==
  { Chars("EXHIBIT A ... SPECIFICATION 12 COMMUNITY REGISTRATION POLICIES"),
    Chars("SPECIFICATION 11 ... SPECIFICATION 13 .BRAND TLD PROVISIONS"),
    Chars("see Specification 12"),
    Chars("") }

AgreementResponses ==
  {[ok |-> TRUE, status |-> 200, text |-> x] : x \in AgreementTexts} \cup
  {[ok |-> FALSE, status |-> 500, statusText |-> Chars("Internal Server Error"),
     text |-> <<>>]}

\* gTLDInfoFromRegistryAgreement(gTLD) is called; it fetches the landing page
AgreementCall ==
  /\ agPc = "idle"
  /\ agTLD' \in {Chars("dummytld1"), Chars("xn--3e0b707e")}
  /\ agPc' = "landing"
  /\ agFetches' = Append(agFetches, LandingURL(agTLD'))
  /\ UNCHANGED <<agPage, agDoc, agRet, notAgVars>>

\* the landing page arrives: the function throws or fetches the document
AgreementLandingArrives ==
  /\ agPc = "landing"
  /\ \E resp \in LandingResponses :
       /\ agPage' = resp
       /\ LET r == AgreementLanding(agTLD, resp)
          IN IF r.kind = "throw"
             THEN agPc' = "done" /\ agRet' = r /\ UNCHANGED agFetches
             ELSE /\ agPc' = "document"
                  /\ agFetches' = Append(agFetches, r.url)
                  /\ UNCHANGED agRet
  /\ UNCHANGED <<agTLD, agDoc, notAgVars>>

\* the agreement document arrives: the function returns or throws
AgreementDocArrives ==
  /\ agPc = "document"
  /\ \E resp2 \in AgreementResponses :
       /\ agDoc' = resp2
       /\ agRet' = AgreementResult(AgreementLanding(agTLD, agPage), resp2)
  /\ agPc' = "done"
  /\ UNCHANGED <<agTLD, agPage, agFetches, notAgVars>>

NextAgreement ==
  AgreementCall \/ AgreementLandingArrives \/ AgreementDocArrives

SpecAgreement == InitRootZone /\ [][NextAgreement]_vars

(***************************************************************************)
(* Dates.  fetch.js calls dayjs(text, 'D MMM YYYY', true) without the      *)
(* customParseFormat plugin, so dayjs ignores the format and the strict    *)
(* flag: a text that is not ISO-like goes to new Date(text).  A dayjs      *)
(* object is [valid |-> TRUE, day |-> n], n the days since 1970-01-01 of   *)
(* its (local) midnight, or [valid |-> FALSE] for an Invalid Date.         *)
(***************************************************************************)
IsDigit(c) == PosIn(c, "0123456789") >= 0

AllDigits(s) == s # <<>> /\ \A i \in DOMAIN s : IsDigit(s[i])

\* the number the first n digits of s spell
RECURSIVE ParseDigits(_, _)
ParseDigits(s, n) ==
  IF n = 0 THEN 0
  ELSE 10 * ParseDigits(s, n - 1) + PosIn(s[n], "0123456789")

ParseInt(s) == ParseDigits(s, Len(s))

MonthNames ==
  <<"JAN", "FEB", "MAR", "APR", "MAY", "JUN",
    "JUL", "AUG", "SEP", "OCT", "NOV", "DEC">>

\* the month 1..12 a three-letter name stands for (in any case), or 0
MonthOf(s) ==
  With([i \in DOMAIN s |-> ToUpperAscii(s[i])], LAMBDA up :
     IF \E m \in 1..12 : Chars(MonthNames[m]) = up
     THEN CHOOSE m \in 1..12 : Chars(MonthNames[m]) = up
     ELSE 0)

\* new Date(y, m - 1, d): the day number of a civil date (a day past the end
\* of its month runs into the next month)
DaysFromCivil(y, m, d) ==
  LET yy == IF m <= 2 THEN y - 1 ELSE y
      era == yy \div 400
      yoe == yy - era * 400
      mp == IF m > 2 THEN m - 3 ELSE m + 9
      doy == ((153 * mp + 2) \div 5) + d - 1
      doe == yoe * 365 + (yoe \div 4) - (yoe \div 100) + doy
  IN era * 146097 + doe - 719468

\* the civil date <<y, m, d>> of a day number
CivilFromDays(n) ==
  LET z == n + 719468
      era == z \div 146097
      doe == z - era * 146097
      yoe == (doe - (doe \div 1460) + (doe \div 36524) - (doe \div 146096)) \div 365
      doy == doe - (365 * yoe + (yoe \div 4) - (yoe \div 100))
      mp == (5 * doy + 2) \div 153
      d == doy - ((153 * mp + 2) \div 5) + 1
      m == IF mp < 10 THEN mp + 3 ELSE mp - 9
      y == yoe + era * 400 + (IF m <= 2 THEN 1 ELSE 0)
  IN <<y, m, d>>

InvalidDate == [valid |-> FALSE]
DateOn(y, m, d) == [valid |-> TRUE, day |-> DaysFromCivil(y, m, d)]

\* dayjs(text, 'D MMM YYYY', true): 'YYYY-MM-DD' matches dayjs's own pattern;
\* 'D MMM YYYY' is a date for new Date(text); any other text of the cells
\* enumerated here is an Invalid Date.  No text makes dayjs throw.
dayjsParse(text) ==
  With(Split(text, "-"), LAMBDA iso : With(Split(text, " "), LAMBDA dmy :
     IF /\ Len(iso) = 3 /\ Len(iso[1]) = 4 /\ Len(iso[2]) \in 1..2
        /\ Len(iso[3]) \in 1..2 /\ \A k \in 1..3 : AllDigits(iso[k])
     THEN DateOn(ParseInt(iso[1]), ParseInt(iso[2]), ParseInt(iso[3]))
     ELSE IF /\ Len(dmy) = 3 /\ Len(dmy[1]) \in 1..2 /\ AllDigits(dmy[1])
             /\ ParseInt(dmy[1]) \in 1..31 /\ MonthOf(dmy[2]) # 0
             /\ Len(dmy[3]) = 4 /\ AllDigits(dmy[3])
     THEN DateOn(ParseInt(dmy[3]), MonthOf(dmy[2]), ParseInt(dmy[1]))
     ELSE InvalidDate))

\* a.isAfter(b): a.valueOf() > b.valueOf(), false when either is NaN.  b may
\* be the current instant [valid, day, late], late = 1 when it is past that
\* day's midnight
InstantOf(a) == 2 * a.day + (IF "late" \in DOMAIN a THEN a.late ELSE 0)

isAfter(a, b) == a.valid /\ b.valid /\ InstantOf(a) > InstantOf(b)

Pad(n, width) ==
  LET s == Chars(ToString(n))
  IN [i \in 1..(width - Len(s)) |-> "0"] \o s

\* a.format('YYYY-MM-DD')
formatYMD(a) ==
  IF ~a.valid THEN Chars("Invalid Date")
  ELSE With(CivilFromDays(a.day), LAMBDA c :
         Pad(c[1], 4) \o <<"-">> \o Pad(c[2], 2) \o <<"-">> \o Pad(c[3], 2))

(***************************************************************************)
(* punycode.toUnicode(domain): every dot-separated label that starts with  *)
(* 'xn--' is decoded (lower-cased first); the others are kept.  (The       *)
(* domains here hold no '@' and no ideographic full stop.)                 *)
(***************************************************************************)
ToLowerAscii(c) ==
  IF PosIn(c, "ABCDEFGHIJKLMNOPQRSTUVWXYZ") >= 0
  THEN SubSeq("abcdefghijklmnopqrstuvwxyz",
              PosIn(c, "ABCDEFGHIJKLMNOPQRSTUVWXYZ") + 1,
              PosIn(c, "ABCDEFGHIJKLMNOPQRSTUVWXYZ") + 1)
  ELSE c

toUnicodeLabel(s) ==
  IF StartsWith(s, XN)
  THEN punycodeDecode([i \in 1..(Len(s) - 4) |-> ToLowerAscii(s[i + 4])])
  ELSE [ok |-> TRUE, value |-> s]

punycodeToUnicode(domain) ==
  With(Split(domain, "."), LAMBDA labels :
    With([i \in DOMAIN labels |-> toUnicodeLabel(labels[i])], LAMBDA decoded :
      IF \E i \in DOMAIN decoded : ~decoded[i].ok
      THEN [ok |-> FALSE, error |-> "RangeError"]
      ELSE [ok |-> TRUE,
            value |-> Join([i \in DOMAIN decoded |-> decoded[i].value], <<".">>)]))

(***************************************************************************)
(* punycode.toASCII(domain): every dot-separated label that holds a        *)
(* character outside ASCII becomes 'xn--' + encode(label), after RFC 3492. *)
(***************************************************************************)
\* the code point of a character; of a basic (ASCII) character encode only
\* asks whether it is below n, and n >= 128
CodePoint(c) == IF IsBasic(c) THEN 0 ELSE ParseInt(Chars(c))

\* digitToBasic(digit, 0)
digitToBasic(d) == SubSeq("abcdefghijklmnopqrstuvwxyz0123456789", d + 1, d + 1)

\* the inner loop of encode: delta as a generalized variable-length integer
RECURSIVE EncodeDigits(_, _, _)
EncodeDigits(q, k, bias) ==
  With(IF k <= bias THEN 1 ELSE IF k >= bias + 26 THEN 26 ELSE k - bias,
       LAMBDA t :
    IF q < t THEN <<digitToBasic(q)>>
    ELSE <<digitToBasic(t + ((q - t) % (36 - t)))>>
         \o EncodeDigits((q - t) \div (36 - t), k + 36, bias))

\* for (const currentValue of input): st is [delta, bias, h, output], b the
\* number of basic code points
RECURSIVE EncodeScan(_, _, _, _, _)
EncodeScan(input, j, n, b, st) ==
  IF j > Len(input) \/ ~st.ok THEN st
  ELSE
    With(IF CodePoint(input[j]) < n THEN st.delta + 1 ELSE st.delta,
         LAMBDA delta :
      IF delta > 2147483647 THEN [ok |-> FALSE, error |-> "overflow"]
      ELSE IF CodePoint(input[j]) = n
      THEN EncodeScan(input, j + 1, n, b,
             With([ok |-> TRUE, delta |-> 0,
                   bias |-> adapt(delta, st.h + 1, st.h = b),
                   h |-> st.h + 1,
                   output |-> st.output \o EncodeDigits(delta, 36, st.bias)],
                  LAMBDA x : x))
      ELSE EncodeScan(input, j + 1, n, b,
             With([st EXCEPT !.delta = delta], LAMBDA x : x)))

\* while (handledCPCount < inputLength)
RECURSIVE EncodeLoop(_, _, _, _)
EncodeLoop(input, n, b, st) ==
  IF ~st.ok THEN st
  ELSE IF st.h >= Len(input) THEN [ok |-> TRUE, value |-> st.output]
  ELSE
    With(CHOOSE m \in {CodePoint(input[j]) : j \in DOMAIN input} :
           /\ m >= n
           /\ \A j \in DOMAIN input : CodePoint(input[j]) >= n =>
                                        m <= CodePoint(input[j]),
         LAMBDA m :
      IF m - n > (2147483647 - st.delta) \div (st.h + 1)
      THEN [ok |-> FALSE, error |-> "overflow"]
      ELSE
        With(EncodeScan(input, 1, m, b,
                        [st EXCEPT !.delta = st.delta + (m - n) * (st.h + 1)]),
             LAMBDA r :
          IF ~r.ok THEN r
          ELSE EncodeLoop(input, m + 1, b,
                          With([r EXCEPT !.delta = r.delta + 1], LAMBDA x : x))))

\* punycode.encode(input)
punycodeEncode(input) ==
  With(SelectSeq(input, IsBasic), LAMBDA basic :
    EncodeLoop(input, 128, Len(basic),
               [ok |-> TRUE, delta |-> 0, bias |-> 72, h |-> Len(basic),
                output |-> IF basic = <<>> THEN <<>> ELSE basic \o <<"-">>]))

\* a bug toASCIILabel does not have: the label is passed on unencoded
toASCIILabel_Raw(s) == [ok |-> TRUE, value |-> s]

toASCIILabel(s) ==
  IF \E i \in DOMAIN s : ~IsBasic(s[i])
  THEN With(punycodeEncode(s), LAMBDA r :
         IF r.ok THEN [ok |-> TRUE, value |-> XN \o r.value] ELSE r)
  ELSE [ok |-> TRUE, value |-> s]

punycodeToASCII(domain) ==
  With(Split(domain, "."), LAMBDA labels :
    With([i \in DOMAIN labels |-> toASCIILabel(labels[i])], LAMBDA encoded :
      IF \E i \in DOMAIN encoded : ~encoded[i].ok
      THEN [ok |-> FALSE, error |-> "RangeError"]
      ELSE [ok |-> TRUE,
            value |-> Join([i \in DOMAIN encoded |-> encoded[i].value], <<".">>)]))

(***************************************************************************)
(* fetch.js getTLDsWithStatusPeriods.  The response carries the rows that  *)
(* querySelectorAll('tbody tr') finds, each the textContent of its cells.  *)
(* An object with optional properties is a function whose domain is the    *)
(* properties it has.                                                      *)
(***************************************************************************)
StatusTypes ==
  {Chars("Start Date Sunrise"), Chars("End Date Sunrise"),
   Chars("Spec 13 - .BRAND TLD")}

TrademarkClaims == Chars("Trademark Claims")

\* ...(cond ? { key: val } : {})
Prop(cond, key, val) == IF cond THEN key :> val ELSE <<>>

\* a bug makePeriod does not have: a period without dates is kept
makePeriod_KeepsDateless(name, open, close, type) ==
  IF name = <<>> THEN Throw("No period name given")
  ELSE Return(<< ("name" :> name)
                 @@ Prop(open # <<>>, "open", dayjsParse(open))
                 @@ Prop(close # <<>>, "close", dayjsParse(close))
                 @@ Prop(type # <<>>, "type", type) >>)

\* makePeriod(name, open, close, type); an argument that is undefined or ''
\* is <<>> here (the function only tests its arguments for truthiness)
makePeriod(name, open, close, type) ==
  IF name = <<>> THEN Throw("No period name given")
  ELSE IF open = <<>> /\ close = <<>> THEN Return(<<>>)
  ELSE Return(<< ("name" :> name)
                 @@ Prop(open # <<>>, "open", dayjsParse(open))
                 @@ Prop(close # <<>>, "close", dayjsParse(close))
                 @@ Prop(type # <<>>, "type", type) >>)

\* rows[i] of the destructuring, <<>> for a cell the row does not have
CellOr(rows, i) == IF i <= Len(rows) THEN rows[i] ELSE <<>>

\* a bug OtherPeriodAt does not have: an entry that a field lacks reads as
\* the field's last entry
OtherPeriodAt_LastEntry(rows, idx) ==
  IF Len(rows) < 10 THEN Throw("TypeError")
  ELSE With([c \in 7..10 |-> Split(rows[c], ",")], LAMBDA field :
         With([c \in 7..10 |-> IF Len(field[c]) < idx THEN Len(field[c]) ELSE idx],
              LAMBDA at :
           makePeriod(Trim(field[8][at[8]]), Trim(field[7][idx]),
                      Trim(field[9][at[9]]), Trim(field[10][at[10]]))))

\* the callback of otherPeriodFrom.split(',').map(...) at index idx (from 1):
\* a field that is missing, or has fewer comma-separated entries than
\* otherPeriodFrom, is undefined where .split or .trim is called on it
OtherPeriodAt(rows, idx) ==
  IF Len(rows) < 10 THEN Throw("TypeError")
  ELSE With([c \in 7..10 |-> Split(rows[c], ",")], LAMBDA field :
         IF \E c \in 8..10 : Len(field[c]) < idx
         THEN Throw("TypeError")
         ELSE makePeriod(Trim(field[8][idx]), Trim(field[7][idx]),
                         Trim(field[9][idx]), Trim(field[10][idx])))

\* otherPeriods: <<>> unless otherPeriodName !== ''
OtherPeriods(rows) ==
  IF Len(rows) >= 8 /\ rows[8] = <<>> THEN Return(<<>>)
  ELSE IF Len(rows) < 7 THEN Throw("TypeError")
  ELSE With([idx \in 1..Len(Split(rows[7], ",")) |-> OtherPeriodAt(rows, idx)],
            LAMBDA made :
         IF \E idx \in DOMAIN made : made[idx].kind = "throw"
         THEN made[CHOOSE idx \in DOMAIN made :
                     /\ made[idx].kind = "throw"
                     /\ \A j \in 1..(idx - 1) : made[j].kind # "throw"]
         ELSE Return(Join([idx \in DOMAIN made |-> made[idx].value], <<>>)))

\* const periods = [...Sunrise, ...Trademark Claims, ...otherPeriods]
Periods(rows) ==
  With(OtherPeriods(rows), LAMBDA others :
    IF others.kind = "throw" THEN others
    ELSE Return(
      makePeriod(Chars("Sunrise"), CellOr(rows, 3), CellOr(rows, 4), <<>>).value
      \o makePeriod(TrademarkClaims, CellOr(rows, 5), CellOr(rows, 6), <<>>).value
      \o others.value))

\* .reduce((acc, itm) => acc === undefined ? itm : acc.isAfter(itm) ? acc : itm,
\*         undefined)
\* over the first n of closes
RECURSIVE ReduceLatest(_, _)
ReduceLatest(closes, n) ==
  IF n = 0 THEN None
  ELSE With(ReduceLatest(closes, n - 1), LAMBDA acc :
         IF acc = None THEN closes[n]
         ELSE IF isAfter(acc, closes[n]) THEN acc ELSE closes[n])

\* a bug generalAvailabilityGuess1 does not have: 'Trademark Claims' counts
generalAvailabilityGuess1_WithClaims(periods) ==
  With(SelectSeq(periods, LAMBDA p : "close" \in DOMAIN p), LAMBDA closing :
    With([i \in DOMAIN closing |-> closing[i].close], LAMBDA closes :
      ReduceLatest(closes, Len(closes))))

\* periods.filter(p => p.name !== 'Trademark Claims').map(p => p.close)
\*   .filter(d => !!d).reduce(...): None stands for undefined
generalAvailabilityGuess1(periods) ==
  With(SelectSeq(periods, LAMBDA p :
         p.name # TrademarkClaims /\ "close" \in DOMAIN p), LAMBDA closing :
    With([i \in DOMAIN closing |-> closing[i].close], LAMBDA closes :
      ReduceLatest(closes, Len(closes))))

\* the output object of a period: its dates formatted
OutPeriod(p) ==
  [k \in DOMAIN p |-> IF k \in {"open", "close"} THEN formatYMD(p[k]) ELSE p[k]]

\* the callback of .map((rows) => ...) on one row of trimmed cells; now is
\* the instant dayjs() yields
StatusRecord(tr, now) ==
  With([i \in DOMAIN tr |-> Trim(tr[i])], LAMBDA rows :
    IF Len(rows) < 2 THEN Throw("TypeError")
    ELSE IF ~(rows[2] = <<>> \/ Trim(rows[2]) \in StatusTypes)
    THEN Throw("sunrise event type must be in well-known types or blank")
    ELSE
      With(Periods(rows), LAMBDA periods :
        IF periods.kind = "throw" THEN periods
        ELSE
          With(generalAvailabilityGuess1(periods.value), LAMBDA guess :
            With(punycodeToUnicode(rows[1]), LAMBDA tld :
              IF ~tld.ok THEN Throw("RangeError")
              ELSE Return([tld |-> tld.value,
                           spec13 |-> Trim(rows[2]) = Chars("Spec 13 - .BRAND TLD"),
                           periods |-> [i \in DOMAIN periods.value |->
                                          OutPeriod(periods.value[i])],
                           isNotGenerallyAvailable |->
                             IF guess = None THEN TRUE
                             ELSE isAfter(guess, now)])))))

\* ret.unique(): the elements are objects, which a Set tells apart by
\* identity; every row's object is a new one, identified here by its index
UniqueObjects(ret) ==
  LET ids == arrayPrototypeUnique([i \in DOMAIN ret |-> i])
  IN [k \in DOMAIN ids |-> ret[ids[k]]]

\* a bug getTLDsWithStatusPeriods does not have: a failed fetch is taken for
\* an empty table
getTLDsWithStatusPeriods_SwallowsFailure(resp, now) ==
  IF ~resp.ok THEN Return(<<>>)
  ELSE
    With([i \in DOMAIN resp.rows |-> StatusRecord(resp.rows[i], now)],
         LAMBDA recs :
      IF \E i \in DOMAIN recs : recs[i].kind = "throw"
      THEN Throw("TypeError")
      ELSE Return([i \in DOMAIN recs |-> recs[i].value]))

getTLDsWithStatusPeriods(resp, now) ==
  IF ~resp.ok THEN Throw(FetchFailedMessage(Chars("Fetch"), resp))
  ELSE
    With([i \in DOMAIN resp.rows |-> StatusRecord(resp.rows[i], now)],
         LAMBDA recs :
      IF \E i \in DOMAIN recs : recs[i].kind = "throw"
      THEN recs[CHOOSE i \in DOMAIN recs :
                  /\ recs[i].kind = "throw"
                  /\ \A j \in 1..(i - 1) : recs[j].kind # "throw"]
      ELSE With([i \in DOMAIN recs |-> recs[i].value], LAMBDA ret :
             IF Len(ret) # Len(UniqueObjects(ret))
             THEN Throw("All TLDs should appear once in sunrise/sunset data")
             ELSE Return(ret)))

(***************************************************************************)
(* Status-period tables: up to MaxStatusRows of these rows of eleven       *)
(* cells, and the instants at which the table is evaluated.                *)
(***************************************************************************)
\* a row of eleven cells: tld, type, the open and close dates of Sunrise (so,
\* sc) and of Trademark Claims (co, cc), the other periods' From, Name, To
\* and Type (of, on, ot, oy), and lastUpdated
StatusRow(tld, type, so, sc, co, cc, of, on, ot, oy) ==
  <<Chars(tld), Chars(type), Chars(so), Chars(sc), Chars(co), Chars(cc),
    Chars(of), Chars(on), Chars(ot), Chars(oy), Chars("2 Mar 2021")>>

StatusRows ==
  { StatusRow("forum", "End Date Sunrise", "16 Nov 2020", "16 Dec 2020",
              "2 Mar 2021", "31 May 2021", "11 Jan 2021", "Limited Registration",
              "28 Feb 2021", "Limited Registration Period"),
    StatusRow("itv", " Spec 13 - .BRAND TLD ", "", "", "26 Sep 2016", "", "", "", "", ""),
    StatusRow("xn--80adxhks", "Start Date Sunrise", "10 Jun 2014", "10 Jul 2014",
              "24 Sep 2014", "4 Jan 2032", "4 Sep 2014, 12 May 2014", "LRP III, -",
              "22 Sep 2014, 10 Jul 2014",
              "Limited Registration Period, Qualified Launch Program"),
    StatusRow("homes", "", "1 Jan 2030", "1 Mar 2030", "", "", "1 Apr 2030",
              "Landrush", "TBD", ""),
    StatusRow("kids", "", "", "TBD", "", "", "1 Apr 2030", "Landrush, Sunset",
              "1 May 2030, 1 Jun 2030", "Early Access, -"),
    StatusRow("music", "Start Date Sunrise", "1 Feb 2021", "2021-02-28",
              "", "", "1 Jan 2021", "Trademark Claims", "1 Jan 2032", ""),
    StatusRow("blog", "Start Date Sunrise", "", "", "1 Jan 2021", "",
              "1 Jan 2021, , 3 Mar 2021", "Early Access, Landrush, QLP",
              ", , 4 Apr 2021", ", , "),
    StatusRow("bad", "Landrush", "16 Nov 2020", "16 Dec 2020", "", "", "", "", "", ""),
    StatusRow("qlp", "", "", "", "", "", "1 Jan 2021, 1 Feb 2021", "QLP",
              "1 Mar 2021, 1 Apr 2021", "a, b"),
    StatusRow("noname", "", "", "", "", "", "1 Jan 2021", " , ", "1 Mar 2021", ""),
    <<Chars("short"), Chars(""), Chars("1 Jan 2021"), Chars("28 Feb 2021"),
      Chars(""), Chars(""), Chars(""), Chars("")>> }

StatusResponses ==
  {[ok |-> TRUE, status |-> 200, rows |-> rs] :
     rs \in SeqsUpTo(StatusRows, MaxStatusRows)} \cup
  {[ok |-> FALSE, status |-> 404, statusText |-> Chars("Not Found"),
     rows |-> <<>>]}

\* the instant late (0 or 1) half days after the midnight that begins the day
Instant(y, m, d, late) ==
  [valid |-> TRUE, day |-> DaysFromCivil(y, m, d), late |-> late]

Instants ==
  { Instant(2014, 9, 1, 1), Instant(2021, 2, 28, 0), Instant(2021, 2, 27, 1),
    Instant(2031, 6, 15, 1) }

\* await fetch('https://newgtlds.icann.org/.../sunrise-claims-periods.xls')
StatusFetch ==
  /\ stResp = None
  /\ stResp' \in StatusResponses
  /\ UNCHANGED <<stNow, stRet, notStVars>>

\* the rest of the function runs on the response, at some instant
StatusParse ==
  /\ stResp # None /\ stRet = None
  /\ \E now \in Instants :
       /\ stNow' = now
       /\ stRet' = getTLDsWithStatusPeriods(stResp, now)
  /\ UNCHANGED <<stResp, notStVars>>

NextStatus == StatusFetch \/ StatusParse

SpecStatus == InitRootZone /\ [][NextStatus]_vars

(***************************************************************************)
(* fetch.js getTLDData(prevData).  An object is a function from its        *)
(* property names to their values; the values of the properties isBrand,   *)
(* hasRestrictions and isNotInGeneralAvailability are "true", "false" or   *)
(* "undefined".                                                            *)
(***************************************************************************)
JSBool(b) == IF b THEN "true" ELSE "false"

\* Object.assign(target, source): source's properties win
Assign(target, source) == source @@ target

Generic == Chars("generic")

\* a bug InitialRecords does not have: the records come out in reverse order
InitialRecords_Reversed(rootZoneTLDStrs) ==
  [i \in DOMAIN rootZoneTLDStrs |->
     "tld" :> rootZoneTLDStrs[Len(rootZoneTLDStrs) + 1 - i]]

\* let tlds = rootZoneTLDStrs.map(s => ({ tld: s }))
InitialRecords(rootZoneTLDStrs) ==
  [i \in DOMAIN rootZoneTLDStrs |-> "tld" :> rootZoneTLDStrs[i]]

\* arr.find(o => o.tld === tld): the first such element, None for undefined
Find(arr, tld) ==
  IF \E i \in DOMAIN arr : arr[i].tld = tld
  THEN arr[CHOOSE i \in DOMAIN arr :
             arr[i].tld = tld /\ \A j \in 1..(i - 1) : arr[j].tld # tld]
  ELSE None

\* `'${t.tld}' must exist in the IANA DB but it didn't`
MustExistMessage(tld) ==
  <<"'">> \o tld \o Chars("' must exist in the IANA DB but it didn't")

\* a bug JoinIana does not have: a label without a row is given an empty
\* type instead of failing the run
JoinIana_NoAssert(ts, ianaDBTLDs) ==
  Return([i \in DOMAIN ts |->
            With(Find(ianaDBTLDs, ts[i].tld), LAMBDA o :
              Assign(ts[i], "type" :> IF o = None THEN <<>> ELSE o.type))])

\* tlds.forEach(t => { ...; _assert(ianaDBTLD, ...); t.type = ianaDBTLD.type }):
\* the first record without a row throws
JoinIana(ts, ianaDBTLDs) ==
  IF \E i \in DOMAIN ts : Find(ianaDBTLDs, ts[i].tld) = None
  THEN Throw(MustExistMessage(
         ts[CHOOSE i \in DOMAIN ts :
              /\ Find(ianaDBTLDs, ts[i].tld) = None
              /\ \A j \in 1..(i - 1) : Find(ianaDBTLDs, ts[j].tld) # None].tld))
  ELSE Return([i \in DOMAIN ts |->
                 Assign(ts[i], "type" :> Find(ianaDBTLDs, ts[i].tld).type)])

\* the generic TLDs that are no new gTLDs
OriginalGenerics ==
  {Chars("com"), Chars("info"), Chars("net"), Chars("org"), Chars("mobi")}

\* a bug JoinStatus does not have: com, info, net, org and mobi are joined too
JoinStatus_AllGenerics(ts, sunriseSunsetTLDs) ==
  [i \in DOMAIN ts |->
     IF ts[i].type = Generic
     THEN With(Find(sunriseSunsetTLDs, ts[i].tld), LAMBDA o :
            IF o = None
            THEN Assign(ts[i], "isNotInGeneralAvailability" :> "false")
            ELSE Assign(ts[i],
                   ("periods" :> o.periods) @@
                   ("isNotInGeneralAvailability" :>
                      JSBool(o.isNotGenerallyAvailable))))
     ELSE ts[i]]

\* the second 'Combining with previous data' block
JoinStatus(ts, sunriseSunsetTLDs) ==
  [i \in DOMAIN ts |->
     IF ts[i].type = Generic /\ ts[i].tld \notin OriginalGenerics
     THEN With(Find(sunriseSunsetTLDs, ts[i].tld), LAMBDA o :
            IF o = None
            THEN Assign(ts[i], "isNotInGeneralAvailability" :> "false")
            ELSE Assign(ts[i],
                   ("periods" :> o.periods) @@
                   ("isNotInGeneralAvailability" :>
                      JSBool(o.isNotGenerallyAvailable))))
     ELSE ts[i]]

\* utils.js mapReduceToObj(arr, obj): every name of arr mapped to obj
mapReduceToObj(arr, obj) == [name \in arr |-> obj]

Restricted == ("isBrand" :> "false") @@ ("hasRestrictions" :> "true")

Sponsored ==
  {Chars("aero"), Chars("asia"), Chars("cat"), Chars("coop"), Chars("edu"),
   Chars("gov"), Chars("int"), Chars("jobs"), Chars("mil"), Chars("museum"),
   Chars("post"), Chars("tel"), Chars("travel"), Chars("xxx")}

GenericRestricted == {Chars("biz"), Chars("name"), Chars("pro")}

\* a bug manualData does not have: prevData is spread first, below the table
manualData_PrevDataFirst(prev) ==
  (Chars("arpa") :> Restricted)
  @@ mapReduceToObj(GenericRestricted, Restricted)
  @@ mapReduceToObj(Sponsored, Restricted)
  @@ mapReduceToObj(OriginalGenerics, <<>>)
  @@ prev

\* const manualData = { ...generic, ...sponsored, ...restricted, arpa,
\* ...prevData }: of two spreads with the same key the later one wins
manualData(prev) ==
  prev
  @@ (Chars("arpa") :> Restricted)
  @@ mapReduceToObj(GenericRestricted, Restricted)
  @@ mapReduceToObj(Sponsored, Restricted)
  @@ mapReduceToObj(OriginalGenerics, <<>>)

\* mapLimit(tlds, 5, ...)
MapLimit == 5

\* a bug IterateeStart does not have: an entry without properties counts as
\* no entry
IterateeStart_EmptyIsAbsent(o, manual) ==
  IF o.tld \in DOMAIN manual /\ manual[o.tld] # <<>>
  THEN [o |-> Assign(o, manual[o.tld]), pc |-> "settling"]
  ELSE IF o.type = Generic THEN [o |-> o, pc |-> "yield"]
  ELSE [o |-> o, pc |-> "settling"]

\* the iteratee up to its first await: with an entry in manualData (an object,
\* so truthy) the record takes the entry's properties and the iteratee
\* returns; a generic record awaits (line 413) before its lookup; any other
\* record is left as it is
IterateeStart(o, manual) ==
  IF o.tld \in DOMAIN manual
  THEN [o |-> Assign(o, manual[o.tld]), pc |-> "settling"]
  ELSE IF o.type = Generic THEN [o |-> o, pc |-> "yield"]
  ELSE [o |-> o, pc |-> "settling"]

\* the iteratees mapLimit is running
Running(task) ==
  Cardinality({i \in DOMAIN task :
                 task[i] \in {"yield", "landing", "document", "settling"}})

\* a bug Replenish does not have: every waiting iteratee is started
Replenish_NoLimit(ts, task, manual) ==
  With({i \in DOMAIN task : task[i] = "waiting"}, LAMBDA starting :
    With([i \in starting |-> IterateeStart(ts[i], manual)], LAMBDA started :
      [tlds |-> [i \in DOMAIN ts |->
                   IF i \in starting THEN started[i].o ELSE ts[i]],
       task |-> [i \in DOMAIN task |->
                   IF i \in starting THEN started[i].pc ELSE task[i]]]))

\* mapLimit's replenish(): iteratees are started in order while fewer than
\* MapLimit are running
Replenish(ts, task, manual) ==
  With({i \in DOMAIN task : task[i] = "waiting"}, LAMBDA waiting :
    With({i \in waiting :
            Cardinality({j \in waiting : j < i}) < MapLimit - Running(task)},
         LAMBDA starting :
      With([i \in starting |-> IterateeStart(ts[i], manual)], LAMBDA started :
        [tlds |-> [i \in DOMAIN ts |->
                     IF i \in starting THEN started[i].o ELSE ts[i]],
         task |-> [i \in DOMAIN task |->
                     IF i \in starting THEN started[i].pc ELSE task[i]]])))

\* a bug AgreementFlags does not have: info is assigned to the record whole
AgreementFlags_WholeInfo(info) ==
  ("isBrand" :> JSBool(info.hasSpec13 \/ info.hasSpec9Exemption)) @@
  ("hasRestrictions" :> JSBool(info.hasSpec12)) @@
  ("hasSpec13" :> JSBool(info.hasSpec13))

\* a bug AgreementFlags does not have: the Specification 9 exemption is left out
AgreementFlags_Spec13Only(info) ==
  ("isBrand" :> JSBool(info.hasSpec13)) @@
  ("hasRestrictions" :> JSBool(info.hasSpec12))

\* { isBrand: info.hasSpec13 || info.hasSpec9Exemption,
\*   hasRestrictions: info.hasSpec12 }
AgreementFlags(info) ==
  ("isBrand" :> JSBool(info.hasSpec13 \/ info.hasSpec9Exemption)) @@
  ("hasRestrictions" :> JSBool(info.hasSpec12))

(***************************************************************************)
(* What a run of getTLDData may meet upstream, and be given.               *)
(***************************************************************************)
\* U+043C U+043E U+0441 U+043A U+0432 U+0430, what xn--80adxhks encodes
Moskva == <<"1084", "1086", "1089", "1082", "1074", "1072">>

\* the NS record of the root zone for a label
ZoneLineOf(owner) == Chars(owner) \o Chars(".\t172800\tIN\tNS\tns.example.")

GDZoneLines ==
  {ZoneLineOf(owner) : owner \in {"com", "museum", "forum", "xn--80adxhks", "uk"}}

GDZoneResponses ==
  {[ok |-> TRUE, status |-> 200, text |-> Join(ls, <<"\n">>)] :
     ls \in SeqsUpTo(GDZoneLines, MaxTLDLines)} \cup
  {[ok |-> FALSE, status |-> 404, statusText |-> Chars("Not Found"),
     text |-> <<>>]}

IanaRowOf(tld, type) == <<tld, Chars(type), Chars("Sponsoring Organisation")>>

GDIanaResponses ==
  { [ok |-> TRUE, status |-> 200, rows |->
       << IanaRowOf(Chars(".aaa"), "generic"), IanaRowOf(Chars(".com"), "generic"),
          IanaRowOf(Chars(".forum"), "generic"),
          IanaRowOf(Chars(".museum"), "sponsored"),
          IanaRowOf(<<RLM, ".">> \o Moskva \o <<LRM>>, "generic"),
          IanaRowOf(Chars(".uk"), "country-code") >>],
    [ok |-> TRUE, status |-> 200, rows |->
       << IanaRowOf(Chars(".com"), "generic"),
          IanaRowOf(Chars(".museum"), "sponsored"),
          IanaRowOf(Chars(".uk"), "country-code") >>],
    [ok |-> FALSE, status |-> 503, statusText |-> Chars("Service Unavailable"),
     rows |-> <<>>] }

GDStatusResponses ==
  { [ok |-> TRUE, status |-> 200, rows |->
       << StatusRow("forum", "End Date Sunrise", "16 Nov 2020", "16 Dec 2020",
                    "2 Mar 2021", "31 May 2021", "11 Jan 2021",
                    "Limited Registration", "28 Feb 2021",
                    "Limited Registration Period"),
          StatusRow("itv", "Spec 13 - .BRAND TLD", "", "", "26 Sep 2016", "",
                    "", "", "", "") >>],
    [ok |-> FALSE, status |-> 404, statusText |-> Chars("Not Found"),
     rows |-> <<>>] }

GDInstants == {Instant(2021, 2, 27, 1)}

Flags(isBrand, hasRestrictions) ==
  ("isBrand" :> isBrand) @@ ("hasRestrictions" :> hasRestrictions)

\* a record of an earlier output as JSON.parse yields it; flags holds the
\* isBrand and hasRestrictions the record has
PriorRecord(tld, type, flags) == ("tld" :> tld) @@ ("type" :> type) @@ flags

\* the earlier outputs piped into --stdin: records with both flags, with
\* one of them and with neither
PriorOutputs ==
  { << PriorRecord(Chars("forum"), Generic, Flags("true", "false")),
       PriorRecord(Chars("museum"), Chars("sponsored"), "isBrand" :> "true"),
       PriorRecord(Chars("gone"), Generic, Flags("false", "false")),
       PriorRecord(Chars("uk"), Chars("country-code"), <<>>) >>,
    << PriorRecord(Moskva, Generic, <<>>),
       PriorRecord(Chars("com"), Generic, Flags("true", "true")) >> }

\* ({tld, isBrand, hasRestrictions}) => ...: a property the record lacks is
\* undefined
Destructured(o, key) == IF key \in DOMAIN o THEN o[key] ELSE "undefined"

\* a bug readPrevious does not have: a record with neither flag gets no entry
readPrevious_SkipsFlagless(inObj) ==
  With([i \in DOMAIN inObj |->
          inObj[i].tld :> Flags(Destructured(inObj[i], "isBrand"),
                                Destructured(inObj[i], "hasRestrictions"))],
       LAMBDA mapped :
    [k \in {Chars(ToString(i - 1)) : i \in DOMAIN inObj} |->
       mapped[CHOOSE i \in DOMAIN inObj : Chars(ToString(i - 1)) = k]]
    @@ [l \in {inObj[i].tld : i \in {j \in DOMAIN inObj :
                  DOMAIN inObj[j] \cap {"isBrand", "hasRestrictions"} # {}}} |->
          mapped[CHOOSE i \in DOMAIN inObj :
                   /\ inObj[i].tld = l
                   /\ \A j \in (i + 1)..Len(inObj) : inObj[j].tld # l][l]])

\* cli.js readPrevious on the array parsed from stdin:
\* inObj.map(({tld, isBrand, hasRestrictions}) => ({[tld]: {isBrand,
\* hasRestrictions}})).reduce(Object.assign, {}).  reduce calls
\* Object.assign(acc, cur, index, array): after cur, the elements of the
\* mapped array are copied too, under their indices "0", "1", ...
readPrevious(inObj) ==
  With([i \in DOMAIN inObj |->
          inObj[i].tld :> Flags(Destructured(inObj[i], "isBrand"),
                                Destructured(inObj[i], "hasRestrictions"))],
       LAMBDA mapped :
    [k \in {Chars(ToString(i - 1)) : i \in DOMAIN inObj} |->
       mapped[CHOOSE i \in DOMAIN inObj : Chars(ToString(i - 1)) = k]]
    @@ [l \in {inObj[i].tld : i \in DOMAIN inObj} |->
          mapped[CHOOSE i \in DOMAIN inObj :
                   /\ inObj[i].tld = l
                   /\ \A j \in (i + 1)..Len(inObj) : inObj[j].tld # l][l]])

\* prevData: undefined (no --stdin; <<>> spreads nothing), or what cli.js
\* readPrevious makes of an earlier output: per tld, { isBrand,
\* hasRestrictions }, either of which the earlier record may have lacked
PrevDatas == {<<>>} \cup {readPrevious(inObj) : inObj \in PriorOutputs}

GDLandingPage(spec13, spec9) ==
  [ok |-> TRUE, status |-> 200,
   page |-> [agmthtml |-> Anchor(Chars("/agreement/dummytld1")),
             spec13 |-> spec13, spec9 |-> spec9]]

GDLandingResponses ==
  { GDLandingPage(NoElement, NoElement),
    GDLandingPage(NoElement,
                  Element(Chars("Specification 9 Code of Conduct Exemption"))),
    [ok |-> FALSE, status |-> 404, statusText |-> Chars("Not Found"),
     page |-> NoElement] }

GDAgreementResponses ==
  {[ok |-> TRUE, status |-> 200, text |-> x] :
     x \in {Chars("SPECIFICATION 12 COMMUNITY REGISTRATION POLICIES"),
            Chars("SPECIFICATION 11 PUBLIC INTEREST COMMITMENTS")}} \cup
  {[ok |-> FALSE, status |-> 500, statusText |-> Chars("Internal Server Error"),
     text |-> <<>>]}

(***************************************************************************)
(* getTLDData, one action per await.                                       *)
(***************************************************************************)
\* main() has parsed its arguments and, with --stdin, read prevData (it is
\* undefined otherwise); getTLDData(prevData) is called and awaits
\* getTLDsFromRootZone(), and main awaits getTLDData
GetTLDDataCall ==
  /\ gdPc = "idle" /\ cliPc = "idle"
  /\ prevData' \in PrevDatas
  /\ gdPc' = "rootzone"
  /\ cliPc' = "awaiting"
  /\ UNCHANGED <<gdZone, gdIana, gdStatus, gdNow, tlds, gdTask, gdInfo,
                 gdFetches, gdRet, extractorVars, fetchVars, stdout>>

\* getTLDsFromRootZone() settles: tlds is made of its labels
GetTLDDataRootZone ==
  /\ gdPc = "rootzone"
  /\ \E resp \in GDZoneResponses :
       /\ gdZone' = resp
       /\ LET r == getTLDsFromRootZone(resp)
          IN IF r.kind = "throw"
             THEN gdPc' = "done" /\ gdRet' = r /\ UNCHANGED tlds
             ELSE /\ gdPc' = "iana"
                  /\ tlds' = InitialRecords(r.value)
                  /\ UNCHANGED gdRet
  /\ UNCHANGED <<prevData, gdIana, gdStatus, gdNow, gdTask, gdInfo, gdFetches,
                 notGdVars>>

\* getTLDInfoFromIANADB() settles: every record gets its type
GetTLDDataIana ==
  /\ gdPc = "iana"
  /\ \E resp \in GDIanaResponses :
       /\ gdIana' = resp
       /\ LET r == getTLDInfoFromIANADB(resp)
              joined == IF r.kind = "throw" THEN r ELSE JoinIana(tlds, r.value)
          IN IF joined.kind = "throw"
             THEN gdPc' = "done" /\ gdRet' = joined /\ UNCHANGED tlds
             ELSE gdPc' = "status" /\ tlds' = joined.value /\ UNCHANGED gdRet
  /\ UNCHANGED <<prevData, gdZone, gdStatus, gdNow, gdTask, gdInfo, gdFetches,
                 notGdVars>>

\* getTLDsWithStatusPeriods() settles: the status periods are joined in,
\* manualData is built and mapLimit starts its first iteratees; with no
\* record at all mapLimit is done at once
GetTLDDataStatus ==
  /\ gdPc = "status"
  /\ \E resp \in GDStatusResponses, now \in GDInstants :
       /\ gdStatus' = resp
       /\ gdNow' = now
       /\ LET r == getTLDsWithStatusPeriods(resp, now)
          IN IF r.kind = "throw"
             THEN /\ gdPc' = "done" /\ gdRet' = r
                  /\ UNCHANGED <<tlds, gdTask, gdInfo>>
             ELSE LET started ==
                        Replenish(JoinStatus(tlds, r.value),
                                  [i \in DOMAIN tlds |-> "waiting"],
                                  manualData(prevData))
                  IN /\ tlds' = started.tlds
                     /\ gdTask' = started.task
                     /\ gdInfo' = [i \in DOMAIN tlds |-> None]
                     /\ IF tlds = <<>>
                        THEN gdPc' = "done" /\ gdRet' = Return(started.tlds)
                        ELSE gdPc' = "agreements" /\ UNCHANGED gdRet
  /\ UNCHANGED <<prevData, gdZone, gdIana, gdFetches, notGdVars>>

\* a bug IterateeThrows does not have: the error of an iteratee is dropped
\* and mapLimit's promise is left pending
IterateeThrows_Swallowed(i, err) ==
  /\ gdTask' = [gdTask EXCEPT ![i] = "failed"]
  /\ UNCHANGED <<gdRet, gdPc>>

\* the iteratee of record i throws: mapLimit's promise rejects (once), and
\* getTLDData with it
IterateeThrows(i, err) ==
  /\ gdTask' = [gdTask EXCEPT ![i] = "failed"]
  /\ gdRet' = IF gdRet = None THEN err ELSE gdRet
  /\ gdPc' = "done"

\* the gTLD that the lookup of record i was called with, as its first fetch
\* recorded it
LookupArgument(i) ==
  gdFetches[CHOOSE k \in DOMAIN gdFetches :
              /\ gdFetches[k].task = i
              /\ \A j \in 1..(k - 1) : gdFetches[j].task # i].gTLD

\* past line 413 the iteratee of record i calls
\* gTLDInfoFromRegistryAgreement(punycode.toASCII(o.tld)), which fetches the
\* landing page
IterateeLookup(i) ==
  /\ gdTask[i] = "yield"
  /\ LET asciiTLD == punycodeToASCII(tlds[i].tld)
     IN IF ~asciiTLD.ok
        THEN IterateeThrows(i, Throw("RangeError")) /\ UNCHANGED gdFetches
        ELSE /\ gdTask' = [gdTask EXCEPT ![i] = "landing"]
             /\ gdFetches' = Append(gdFetches,
                               [task |-> i, gTLD |-> asciiTLD.value,
                                url |-> LandingURL(asciiTLD.value)])
             /\ UNCHANGED <<gdPc, gdRet>>
  /\ UNCHANGED <<prevData, gdZone, gdIana, gdStatus, gdNow, tlds, gdInfo,
                 notGdVars>>

\* the landing page of record i arrives: its lookup throws or fetches the
\* agreement document
IterateeLanding(i) ==
  /\ gdTask[i] = "landing"
  /\ \E resp \in GDLandingResponses :
       LET r == AgreementLanding(LookupArgument(i), resp)
       IN IF r.kind = "throw"
          THEN IterateeThrows(i, r) /\ UNCHANGED <<gdInfo, gdFetches>>
          ELSE /\ gdTask' = [gdTask EXCEPT ![i] = "document"]
               /\ gdInfo' = [gdInfo EXCEPT ![i] = r]
               /\ gdFetches' = Append(gdFetches,
                                 [task |-> i, gTLD |-> r.gTLD, url |-> r.url])
               /\ UNCHANGED <<gdPc, gdRet>>
  /\ UNCHANGED <<prevData, gdZone, gdIana, gdStatus, gdNow, tlds, notGdVars>>

\* a bug IterateeDocument does not have: the iteratees share one variable
\* for their record, so that the flags go to the record of the lookup that
\* fetched last
IterateeDocument_SharedRecord(i) ==
  /\ gdTask[i] = "document"
  /\ \E resp2 \in GDAgreementResponses :
       LET r == AgreementResult(gdInfo[i], resp2)
       IN IF r.kind = "throw"
          THEN IterateeThrows(i, r) /\ UNCHANGED <<gdInfo, tlds>>
          ELSE /\ gdTask' = [gdTask EXCEPT ![i] = "settling"]
               /\ gdInfo' = [gdInfo EXCEPT ![i] = r.value]
               /\ tlds' = [tlds EXCEPT ![gdFetches[Len(gdFetches)].task] =
                                          Assign(@, AgreementFlags(r.value))]
               /\ UNCHANGED <<gdPc, gdRet>>
  /\ UNCHANGED <<prevData, gdZone, gdIana, gdStatus, gdNow, gdFetches,
                 notGdVars>>

\* the agreement document of record i arrives: its lookup throws, or returns
\* info and the record takes isBrand and hasRestrictions from it
IterateeDocument(i) ==
  /\ gdTask[i] = "document"
  /\ \E resp2 \in GDAgreementResponses :
       LET r == AgreementResult(gdInfo[i], resp2)
       IN IF r.kind = "throw"
          THEN IterateeThrows(i, r) /\ UNCHANGED <<gdInfo, tlds>>
          ELSE /\ gdTask' = [gdTask EXCEPT ![i] = "settling"]
               /\ gdInfo' = [gdInfo EXCEPT ![i] = r.value]
               /\ tlds' = [tlds EXCEPT ![i] = Assign(@, AgreementFlags(r.value))]
               /\ UNCHANGED <<gdPc, gdRet>>
  /\ UNCHANGED <<prevData, gdZone, gdIana, gdStatus, gdNow, gdFetches,
                 notGdVars>>

\* the promise of record i's iteratee resolves: mapLimit starts the next
\* iteratees, unless one has thrown; when none is left getTLDData returns tlds
IterateeSettles(i) ==
  /\ gdTask[i] = "settling"
  /\ IF gdRet # None
     THEN /\ gdTask' = [gdTask EXCEPT ![i] = "done"]
          /\ UNCHANGED <<tlds, gdPc, gdRet>>
     ELSE LET next == Replenish(tlds, [gdTask EXCEPT ![i] = "done"],
                                manualData(prevData))
          IN /\ tlds' = next.tlds
             /\ gdTask' = next.task
             /\ IF \A j \in DOMAIN next.task : next.task[j] = "done"
                THEN gdPc' = "done" /\ gdRet' = Return(next.tlds)
                ELSE UNCHANGED <<gdPc, gdRet>>
  /\ UNCHANGED <<prevData, gdZone, gdIana, gdStatus, gdNow, gdInfo, gdFetches,
                 notGdVars>>

\* JSON.stringify(tldObjs, null, 2): a property whose value is undefined is
\* left out
JSONStringify(tldObjs) ==
  [i \in DOMAIN tldObjs |->
     [k \in {p \in DOMAIN tldObjs[i] :
               \/ p \notin {"isBrand", "hasRestrictions",
                            "isNotInGeneralAvailability"}
               \/ tldObjs[i][p] # "undefined"} |-> tldObjs[i][k]]]

\* a bug MainAfterAwait does not have: a failed run writes what it has
MainAfterAwait_WritesAnyway(outcome, records, out) ==
  IF outcome.kind = "return"
  THEN [pc |-> "done", stdout |-> Append(out, JSONStringify(outcome.value))]
  ELSE [pc |-> "rejected", stdout |-> Append(out, JSONStringify(records))]

\* main() after `await getTLDData(prevData)`: a returned collection is
\* written to stdout and main is done; a throw rejects main's promise, which
\* nothing handles
MainAfterAwait(outcome, records, out) ==
  IF outcome.kind = "return"
  THEN [pc |-> "done", stdout |-> Append(out, JSONStringify(outcome.value))]
  ELSE [pc |-> "rejected", stdout |-> out]

\* with --stdin, readPrevious throws (stdin is not JSON, or not an array):
\* main's promise rejects before getTLDData is called
CliReadPreviousThrows ==
  /\ cliPc = "idle"
  /\ cliPc' = "rejected"
  /\ UNCHANGED <<stdout, extractorVars, gdVars, fetchVars>>

\* getTLDData's promise has settled and main resumes
CliResumes ==
  /\ cliPc = "awaiting"
  /\ gdRet # None
  /\ LET after == MainAfterAwait(gdRet, tlds, stdout)
     IN cliPc' = after.pc /\ stdout' = after.stdout
  /\ UNCHANGED <<extractorVars, gdVars, fetchVars>>

Init == InitRootZone

Next ==
  \/ GetTLDDataCall
  \/ GetTLDDataRootZone
  \/ GetTLDDataIana
  \/ GetTLDDataStatus
  \/ \E i \in DOMAIN gdTask : IterateeLookup(i)
  \/ \E i \in DOMAIN gdTask : IterateeLanding(i)
  \/ \E i \in DOMAIN gdTask : IterateeDocument(i)
  \/ \E i \in DOMAIN gdTask : IterateeSettles(i)
  \/ CliReadPreviousThrows
  \/ CliResumes

Spec == Init /\ [][Next]_vars

(***************************************************************************)
(* Claims about getTLDsFromRootZone (checked under SpecRootZone).          *)
(***************************************************************************)
RootZoneReturned == rzRet.kind = "return"

\* the decoded labels of the fetched text, in document order, repeats kept
ZoneLabelsInOrder ==
  [i \in DOMAIN DecodedLabels(rzResp.text) |->
     DecodedLabels(rzResp.text)[i].value]

FirstIndex(arr, x) == CHOOSE i \in DOMAIN arr :
                        arr[i] = x /\ \A j \in 1..(i-1) : arr[j] # x

\* C2: getTLDsFromRootZone returns each label at most once, in the order of
\* the labels' first occurrences in the document, and the labels compared
\* are the decoded ones (an encoded and a decoded spelling are one entry).
C2_UniqueInFirstSeenOrder ==
  RootZoneReturned =>
    LET v == rzRet.value
        L == ZoneLabelsInOrder
    IN /\ \A i, j \in DOMAIN v : i < j => v[i] # v[j]
       /\ Range(v) = Range(L)
       /\ \A i, j \in DOMAIN v :
            i < j => FirstIndex(L, v[i]) < FirstIndex(L, v[j])

\* C2 witness: a document spelling one label twice, encoded and then
\* decoded, has been parsed into a single entry
C2_Witness ==
  /\ RootZoneReturned
  /\ RawLabels(rzResp.text) = <<XN \o Chars("3e0b707e"), Hangul>>
  /\ rzRet.value = <<Hangul>>

\* the raw labels of the fetched text that carry the punycode prefix
EncodedLabels == {s \in Range(RawLabels(rzResp.text)) : StartsWith(s, XN)}

\* C3 as stated: the output holds the decoded form of every punycode-
\* encoded label and no entry of the output starts with 'xn--'.
C3_NeverStartsWithXN ==
  RootZoneReturned =>
    /\ \A s \in EncodedLabels :
         punycodeDecode(SliceFrom(s, 4)).value \in Range(rzRet.value)
    /\ \A e \in Range(rzRet.value) : ~StartsWith(e, XN)

\* C3 amended: the output holds the decoded form of every label that starts
\* with 'xn--', and an entry of the output that starts with 'xn--' is itself
\* such a decoded form (decoding is applied once), never a raw label.
C3_DecodedFormOnly ==
  RootZoneReturned =>
    /\ \A s \in EncodedLabels :
         punycodeDecode(SliceFrom(s, 4)).value \in Range(rzRet.value)
    /\ \A e \in Range(rzRet.value) :
         StartsWith(e, XN) =>
           \E s \in EncodedLabels : punycodeDecode(SliceFrom(s, 4)).value = e

\* C3 witness: xn--3e0b707e was in the document and its decoded form, not
\* the raw label, is in the output
C3_Witness ==
  /\ RootZoneReturned
  /\ XN \o Chars("3e0b707e") \in EncodedLabels
  /\ Hangul \in Range(rzRet.value)
  /\ XN \o Chars("3e0b707e") \notin Range(rzRet.value)

\* the owner name as C4 words it: the text before the first white space, or
\* the whole line when it has none
C4_OwnerName(line) ==
  IF SearchWhitespace(line) < 0 THEN line
  ELSE SubSeq(line, 1, SearchWhitespace(line))

\* one non-empty label followed by exactly one dot
C4_IsTLDOwner(o) ==
  /\ Len(o) >= 2
  /\ o[Len(o)] = "."
  /\ \A i \in 1..(Len(o) - 1) : o[i] # "."

\* C4 as stated: a line yields a label if and only if its owner name is one
\* non-empty label followed by exactly one dot, and no returned label is
\* empty or contains a dot.
C4_LabelIffSingleLabelOwner ==
  RootZoneReturned =>
    /\ \A k \in DOMAIN Split(rzResp.text, "\n") :
         LET line == Split(rzResp.text, "\n")[k]
         IN C4_IsTLDOwner(C4_OwnerName(line)) <=> RawLabels(line) # <<>>
    /\ \A e \in Range(rzRet.value) : e # <<>> /\ "." \notin Range(e)

(***************************************************************************)
(* Claims about getTLDInfoFromIANADB (checked under SpecIana).             *)
(***************************************************************************)
IanaReturned == ianaRet.kind = "return"

NoOuterWhitespace(s) ==
  s = <<>> \/ (~IsWhitespace(s[1]) /\ ~IsWhitespace(s[Len(s)]))

\* C5 as stated: in every returned record the tld has no leading dot and no
\* left-to-right or right-to-left mark, and tld, type and sponsor have no
\* leading or trailing white space.
C5_TldCleanAndFieldsTrimmed ==
  IanaReturned =>
    \A i \in DOMAIN ianaRet.value :
      LET r == ianaRet.value[i]
      IN /\ r.tld = <<>> \/ r.tld[1] # "."
         /\ RLM \notin Range(r.tld) /\ LRM \notin Range(r.tld)
         /\ NoOuterWhitespace(r.tld)
         /\ NoOuterWhitespace(r.type)
         /\ NoOuterWhitespace(r.sponsor)

(***************************************************************************)
(* Claims about gTLDInfoFromRegistryAgreement (under SpecAgreement).       *)
(***************************************************************************)
\* text holds 'withdrawal' in some mix of upper and lower case
C6_HasWithdrawal(text) ==
  \E i \in 1..(Len(text) - 9) :
    \A k \in 1..10 :
      text[i + k - 1] \in
        {Chars("withdrawal")[k], Chars("WITHDRAWAL")[k]}

\* text holds the sixteen characters of 'SPECIFICATION 12', as they are
C6_HasSpec12Literal(text) ==
  \E i \in 1..(Len(text) - 15) :
    \A k \in 1..16 : text[i + k - 1] = Chars("SPECIFICATION 12")[k]

\* C6: when the landing page has the agreement-HTML anchor (and both fetches
\* are ok) the call returns exactly {hasSpec13, hasSpec9Exemption, hasSpec12}:
\* hasSpec13 = a Specification 13 anchor is on the page, hasSpec9Exemption =
\* a Specification 9 anchor is there and its text does not match
\* 'withdrawal' in any case, hasSpec12 = the document holds 'SPECIFICATION 12'.
C6_AgreementInfo ==
  (agPc = "done" /\ agPage.ok /\ agPage.page.agmthtml.present /\ agDoc # None
     /\ agDoc.ok) =>
    /\ agRet.kind = "return"
    /\ DOMAIN agRet.value = {"hasSpec13", "hasSpec9Exemption", "hasSpec12"}
    /\ agRet.value.hasSpec13 = agPage.page.spec13.present
    /\ agRet.value.hasSpec9Exemption =
         (/\ agPage.page.spec9.present
          /\ ~C6_HasWithdrawal(agPage.page.spec9.textContent))
    /\ agRet.value.hasSpec12 = C6_HasSpec12Literal(agDoc.text)

\* C6 witness: the fixture of test.js: Specification 13, a Specification 9
\* notice that is not withdrawn, and SPECIFICATION 12 in the document
C6_Witness ==
  /\ agPc = "done" /\ agRet.kind = "return"
  /\ agPage.page.spec13.present /\ agPage.page.spec9.present
  /\ ~C6_HasWithdrawal(agPage.page.spec9.textContent)
  /\ C6_HasSpec12Literal(agDoc.text)
  /\ agRet.value = [hasSpec13 |-> TRUE, hasSpec9Exemption |-> TRUE,
                    hasSpec12 |-> TRUE]

(***************************************************************************)
(* Claims about getTLDsWithStatusPeriods.                                  *)
(***************************************************************************)
StatusReturned == stRet # None /\ stRet.kind = "return"

\* the close values of a record's periods that are not 'Trademark Claims'
C10_Closes(rec) ==
  {p.close : p \in {q \in Range(rec.periods) :
                      q.name # TrademarkClaims /\ "close" \in DOMAIN q}}

\* those of them that are dates, as day numbers
C10_CloseDays(rec) ==
  {dayjsParse(c).day : c \in {x \in C10_Closes(rec) : dayjsParse(x).valid}}

C10_LatestDay(rec) ==
  CHOOSE d \in C10_CloseDays(rec) : \A e \in C10_CloseDays(rec) : e <= d

\* C10: for every status-period row, isNotGenerallyAvailable is true when no
\* period other than 'Trademark Claims' has a close date, and otherwise is
\* true exactly when the latest of those close dates is after the evaluation
\* time (a record none of whose close values is a date is left open here)
C10_FlagFromLatestClose ==
  StatusReturned =>
    \A k \in DOMAIN stRet.value :
      LET rec == stRet.value[k]
      IN /\ C10_Closes(rec) = {} => rec.isNotGenerallyAvailable
         /\ C10_CloseDays(rec) # {} =>
              (rec.isNotGenerallyAvailable
                 <=> isAfter([valid |-> TRUE, day |-> C10_LatestDay(rec)], stNow))

(***************************************************************************)
(* Claims about getTLDData.                                                *)
(***************************************************************************)
GDReturned == gdRet # None /\ gdRet.kind = "return"

\* the labels of the records, in order
GDLabels(records) == [i \in DOMAIN records |-> records[i].tld]

\* C1: when getTLDData returns, its records are, in the extractor's order,
\* the labels getTLDsFromRootZone returned, one record each and no label
\* twice; so there is no record for a label that only the IANA table, the
\* status-period table or prevData holds
C1_OneRecordPerRootZoneLabel ==
  GDReturned =>
    /\ GDLabels(gdRet.value) = getTLDsFromRootZone(gdZone).value
    /\ \A i, j \in DOMAIN gdRet.value :
         i # j => gdRet.value[i].tld # gdRet.value[j].tld

\* two records returned while IANA (.aaa), the status periods (itv) and
\* prevData (gone) each hold a label the root zone lacks
C1_Witness ==
  /\ GDReturned /\ Len(gdRet.value) = 2
  /\ Chars("gone") \in DOMAIN prevData
  /\ \E k \in DOMAIN gdIana.rows : gdIana.rows[k][1] = Chars(".aaa")
  /\ \E k \in DOMAIN gdStatus.rows : gdStatus.rows[k][1] = Chars("itv")

\* the labels of the static table of manualData
StaticLabels ==
  OriginalGenerics \cup Sponsored \cup GenericRestricted \cup {Chars("arpa")}

\* record i is generic and has neither a static nor a carried-forward entry
C7_Eligible(i) ==
  /\ tlds[i].type = Generic
  /\ tlds[i].tld \notin StaticLabels
  /\ tlds[i].tld \notin DOMAIN prevData

\* the owner name (less its dot) under which the root zone has record i
C7_ZoneName(i) ==
  CHOOSE raw \in Range(RawLabels(gdZone.text)) :
    DecodeLabel(raw).value = tlds[i].tld

C7_FetchesOf(i) ==
  SelectSeq(gdFetches, LAMBDA f : f.task = i)

\* C7: a registry-agreement lookup is made for generic records without a
\* static or carried-forward entry only; when getTLDData returns, every such
\* record has isBrand = hasSpec13 or hasSpec9Exemption and hasRestrictions =
\* hasSpec12 of its own lookup, which asked for the label's punycode form
C7_FlagsFromOwnLookup ==
  /\ \A k \in DOMAIN gdFetches : C7_Eligible(gdFetches[k].task)
  /\ GDReturned =>
       \A i \in DOMAIN gdRet.value :
         IF C7_Eligible(i)
         THEN /\ Len(C7_FetchesOf(i)) = 2
              /\ C7_FetchesOf(i)[1].url =
                   Chars("https://www.icann.org/en/about/agreements/registries/")
                   \o C7_ZoneName(i)
              /\ gdRet.value[i].isBrand =
                   JSBool(gdInfo[i].hasSpec13 \/ gdInfo[i].hasSpec9Exemption)
              /\ gdRet.value[i].hasRestrictions = JSBool(gdInfo[i].hasSpec12)
         ELSE gdInfo[i] = None /\ C7_FetchesOf(i) = <<>>

\* the record of an internationalized label is a brand by its Specification
\* 9 exemption alone, next to another record
C7_Witness ==
  /\ GDReturned /\ Len(gdRet.value) = 2
  /\ \E i \in DOMAIN gdRet.value :
       /\ C7_Eligible(i) /\ gdRet.value[i].tld = Moskva
       /\ ~gdInfo[i].hasSpec13 /\ gdRet.value[i].isBrand = "true"

\* C8: no registry-agreement fetch is issued for a label prevData has an
\* entry for, and when getTLDData returns, the record of such a label has
\* the entry's isBrand and hasRestrictions
C8_CarriedForwardVerbatim ==
  gdPc # "idle" =>
    /\ \A k \in DOMAIN gdFetches :
         tlds[gdFetches[k].task].tld \notin DOMAIN prevData
    /\ GDReturned =>
         \A i \in DOMAIN gdRet.value :
           gdRet.value[i].tld \in DOMAIN prevData =>
             /\ {"isBrand", "hasRestrictions"} \subseteq DOMAIN gdRet.value[i]
             /\ gdRet.value[i].isBrand = prevData[gdRet.value[i].tld].isBrand
             /\ gdRet.value[i].hasRestrictions =
                  prevData[gdRet.value[i].tld].hasRestrictions

\* forum, a generic label without a static entry, is carried forward while
\* another record has been looked up
C8_Witness ==
  /\ GDReturned /\ gdFetches # <<>>
  /\ \E i \in DOMAIN gdRet.value :
       /\ gdRet.value[i].tld = Chars("forum")
       /\ gdRet.value[i].type = Generic
       /\ Chars("forum") \in DOMAIN prevData

\* the static entry of a label: no property for the original generic TLDs
C9_StaticEntry(l) == IF l \in OriginalGenerics THEN <<>> ELSE Restricted

\* rec has isBrand and hasRestrictions as entry has them, or lacks them
C9_FlagsAre(rec, entry) ==
  \A k \in {"isBrand", "hasRestrictions"} :
    /\ (k \in DOMAIN rec) <=> (k \in DOMAIN entry)
    /\ k \in DOMAIN entry => rec[k] = entry[k]

\* C9: when getTLDData returns, the record of a label of the static table
\* has isBrand and hasRestrictions as its prevData entry has them if there is
\* one (nothing of the static entry is left), and as the static entry has
\* them otherwise; no lookup is ever made for a label of the static table
C9_CarryForwardOverStatic ==
  gdPc # "idle" =>
    /\ \A k \in DOMAIN gdFetches :
         tlds[gdFetches[k].task].tld \notin StaticLabels
    /\ GDReturned =>
         \A i \in DOMAIN gdRet.value :
           gdRet.value[i].tld \in StaticLabels =>
             /\ gdInfo[i] = None
             /\ IF gdRet.value[i].tld \in DOMAIN prevData
                THEN C9_FlagsAre(gdRet.value[i], prevData[gdRet.value[i].tld])
                ELSE C9_FlagsAre(gdRet.value[i],
                                 C9_StaticEntry(gdRet.value[i].tld))

\* museum has a static entry and a prevData entry that differ, com a static
\* entry only
C9_Witness ==
  /\ GDReturned
  /\ Chars("museum") \in DOMAIN prevData
  /\ Chars("com") \notin DOMAIN prevData
  /\ {Chars("museum"), Chars("com")} \subseteq Range(GDLabels(gdRet.value))

(***************************************************************************)
(* Claims about the periods of getTLDsWithStatusPeriods.                   *)
(***************************************************************************)
\* the trimmed text of cell c of a row, empty for a cell the row lacks
C11_Cell(row, c) == IF c <= Len(row) THEN Trim(row[c]) ELSE <<>>

\* entry idx of a comma-separated cell, trimmed
C11_Entry(row, c, idx) == Trim(Split(C11_Cell(row, c), ",")[idx])

\* the candidate periods of a row as <<name, open text, close text>>:
\* Sunrise, Trademark Claims and, when the row names other periods, one per
\* entry of its From cell
C11_Candidates(row) ==
  << <<Chars("Sunrise"), C11_Cell(row, 3), C11_Cell(row, 4)>>,
     <<TrademarkClaims, C11_Cell(row, 5), C11_Cell(row, 6)>> >>
  \o (IF C11_Cell(row, 8) = <<>> THEN <<>>
      ELSE [idx \in 1..Len(Split(C11_Cell(row, 7), ",")) |->
              <<C11_Entry(row, 8, idx), C11_Entry(row, 7, idx),
                C11_Entry(row, 9, idx)>>])

\* of every candidate with a date: its name and which dates it has
C11_Dated(row) ==
  With(SelectSeq(C11_Candidates(row), LAMBDA c : c[2] # <<>> \/ c[3] # <<>>),
       LAMBDA kept :
    [i \in DOMAIN kept |-> <<kept[i][1], kept[i][2] # <<>>, kept[i][3] # <<>>>>])

\* of every period of a record: its name and which dates it has
C11_Shape(periods) ==
  [i \in DOMAIN periods |->
     <<periods[i].name, "open" \in DOMAIN periods[i],
       "close" \in DOMAIN periods[i]>>]

\* C11: the periods of every returned record are the row's candidates that
\* have an open or a close date, each once, in the order Sunrise, Trademark
\* Claims, other periods as the row lists them; a candidate without dates
\* is not among them
C11_DatedPeriodsInOrder ==
  StatusReturned =>
    \A k \in DOMAIN stRet.value :
      C11_Shape(stRet.value[k].periods) = C11_Dated(stResp.rows[k])

\* a row without Sunrise dates whose second other period has no dates has
\* yielded Trademark Claims and its first and third other periods
C11_Witness ==
  /\ StatusReturned
  /\ \E k \in DOMAIN stRet.value :
       /\ Len(C11_Candidates(stResp.rows[k])) = 5
       /\ [i \in DOMAIN stRet.value[k].periods |->
             stRet.value[k].periods[i].name]
          = <<TrademarkClaims, Chars("Early Access"), Chars("QLP")>>

(***************************************************************************)
(* Claims about the joins of getTLDData.                                   *)
(***************************************************************************)
\* what getTLDsWithStatusPeriods returned to the run
C12_StatusOutput == getTLDsWithStatusPeriods(gdStatus, gdNow).value

\* record t carries neither periods nor isNotInGeneralAvailability
C12_Unjoined(t) ==
  "periods" \notin DOMAIN t /\ "isNotInGeneralAvailability" \notin DOMAIN t

C13_Missing ==
  With(getTLDInfoFromIANADB(gdIana), LAMBDA iana :
    IF iana.kind # "return" THEN {}
    ELSE {i \in DOMAIN tlds : \A k \in DOMAIN iana.value :
                                iana.value[k].tld # tlds[i].tld})

\* getTLDData has failed before its status fetch
C13_FailedBeforeStatus ==
  /\ gdPc = "done" /\ gdRet.kind = "throw"
  /\ gdStatus = None /\ gdFetches = <<>>

\* C13: when the IANA extractor returns a result that lacks a row for some
\* root zone label, getTLDData fails with the error that names the first
\* such label and returns no collection; and a run that has failed before
\* its status fetch issues neither the status fetch nor any registry
\* agreement fetch afterwards
C13_MissingIanaRowIsFatal ==
  [][ /\ (gdPc = "iana" /\ gdIana'.ok) =>
           \A missing \in {C13_Missing'} :
             missing # {} =>
               /\ C13_FailedBeforeStatus'
               /\ \E i \in missing :
                    /\ \A j \in missing : i <= j
                    /\ gdRet'.message = MustExistMessage(tlds[i].tld)
      /\ C13_FailedBeforeStatus => C13_FailedBeforeStatus' ]_vars

\* the zone had forum and com, the IANA table only com: the run has failed
\* naming forum
C13_Witness ==
  /\ gdIana # None /\ gdIana.ok
  /\ GDLabels(tlds) = <<Chars("com"), Chars("forum")>>
  /\ gdRet # None /\ gdRet.kind = "throw"
  /\ gdRet.message = MustExistMessage(Chars("forum"))
  /\ gdStatus = None /\ gdFetches = <<>>

(***************************************************************************)
(* fetch: the function every extractor calls for its HTTP GET.             *)
(***************************************************************************)
\* the calls of fetch in fetch.js
FetchSites ==
  {"getTLDsFromRootZone", "getTLDInfoFromIANADB",
   "gTLDInfoFromRegistryAgreement: landing page",
   "gTLDInfoFromRegistryAgreement: agreement",
   "getTLDsWithStatusPeriods"}

\* utils.js fetch: fetch-retry with retries 4 and retryOn 500..511
ResilientOptions == [retries |-> 4, retryOn |-> 500..511]

\* fetch.js fetch: fetchRetry(nodeFetch) without defaults, called without
\* init, so with fetch-retry's own defaults: 3 retries, retryOn []
ExtractorFetchOptions == [retries |-> 3, retryOn |-> {}]

\* utils.js fetch is exported for any caller
ResilientSite == "utils.js fetch"

\* the options a call of fetch at this site runs with
FetchOptionsOf(site) ==
  IF site = ResilientSite THEN ResilientOptions ELSE ExtractorFetchOptions

\* fetch-retry's default retryDelay
DefaultRetryDelay == 1000

\* a bug ResilientRetryDelay does not have: base and exponent are swapped
ResilientRetryDelay_Swapped(attempt) == (attempt ^ 3) * 10000

\* utils.js retryDelay: Math.pow(3, attempt) * 10000
ResilientRetryDelay(attempt) == (3 ^ attempt) * 10000

\* the delay before the retry that follows attempt number `attempt`
RetryDelayOf(site, attempt) ==
  IF site = ResilientSite THEN ResilientRetryDelay(attempt)
  ELSE DefaultRetryDelay

\* what one attempt (one node-fetch call) can end with: a network failure
\* (node-fetch rejects) or a response
NetworkFailure == [kind |-> "error", status |-> 0]

HTTPResponse(status) == [kind |-> "response", status |-> status]

AttemptOutcomes ==
  {NetworkFailure} \cup
  {HTTPResponse(s) : s \in {200, 301, 404, 499, 500, 503, 511, 512}}

\* fetch-retry's decision after attempt number `attempt` (from 0): a response
\* whose status is not in retryOn resolves the promise; one whose status is,
\* and a network failure, are retried while attempt < retries, and then
\* resolve with the response or reject with the error
AfterAttempt(options, attempt, outcome) ==
  IF outcome.kind = "response" /\ outcome.status \notin options.retryOn
  THEN "resolve"
  ELSE IF attempt < options.retries THEN "retry"
  ELSE IF outcome.kind = "response" THEN "resolve"
  ELSE "reject"

\* an extractor calls fetch(url): the first attempt is issued
FetchCall ==
  /\ fPc = "idle"
  /\ fSite' \in FetchSites
  /\ fPc' = "attempt"
  /\ UNCHANGED <<fAttempt, fLog, fDelays, fRet, notFetchVars>>

\* a caller calls utils.js fetch(url) without options of its own: the first
\* attempt is issued
ResilientFetchCall ==
  /\ fPc = "idle"
  /\ fSite' = ResilientSite
  /\ fPc' = "attempt"
  /\ UNCHANGED <<fAttempt, fLog, fDelays, fRet, notFetchVars>>

\* the attempt under way ends: fetch-retry settles the promise or schedules
\* a retry
FetchAttemptEnds ==
  /\ fPc = "attempt"
  /\ \E outcome \in AttemptOutcomes :
       /\ fLog' = Append(fLog, outcome)
       /\ LET decision == AfterAttempt(FetchOptionsOf(fSite), fAttempt, outcome)
          IN CASE decision = "resolve" ->
                    /\ fPc' = "done" /\ fRet' = Return(outcome)
                    /\ UNCHANGED fDelays
               [] decision = "reject" ->
                    /\ fPc' = "done" /\ fRet' = Throw("FetchError")
                    /\ UNCHANGED fDelays
               [] decision = "retry" ->
                    /\ fPc' = "delay"
                    /\ fDelays' = Append(fDelays, RetryDelayOf(fSite, fAttempt))
                    /\ UNCHANGED fRet
  /\ UNCHANGED <<fSite, fAttempt, notFetchVars>>

\* the retry delay has passed: wrappedFetch(++attempt)
FetchRetry ==
  /\ fPc = "delay"
  /\ fAttempt' = fAttempt + 1
  /\ fPc' = "attempt"
  /\ UNCHANGED <<fSite, fLog, fDelays, fRet, notFetchVars>>

NextFetch == FetchCall \/ FetchAttemptEnds \/ FetchRetry

SpecFetch == Init /\ [][NextFetch]_vars

NextResilientFetch == ResilientFetchCall \/ FetchAttemptEnds \/ FetchRetry

SpecResilientFetch == Init /\ [][NextResilientFetch]_vars

\* attempt k of the call was followed by a retry, or one is scheduled
C14_Retried(k) == k < Len(fLog) \/ fPc \in {"delay", "attempt"}

\* C14: every GET of an extractor behaves as the Resilient Fetcher's: an
\* attempt that ends in a network failure or in a response with status 500
\* to 511 is retried (while retries are left), and an attempt that ends in a
\* response with any other status is not
C14_RetriedOnFailureAndServerError ==
  \A k \in DOMAIN fLog :
    IF fLog[k].kind = "error" \/ fLog[k].status \in ResilientOptions.retryOn
    THEN k - 1 < ExtractorFetchOptions.retries => C14_Retried(k)
    ELSE ~C14_Retried(k)

C16_Carries(t, p) == p \in DOMAIN t /\ t[p] # "undefined"

\* C16: in the returned collection a record whose type is not generic
\* carries neither isBrand nor hasRestrictions
C16_FlagsOnlyOnGeneric ==
  GDReturned =>
    \A i \in DOMAIN gdRet.value :
      gdRet.value[i].type # Generic =>
        /\ ~C16_Carries(gdRet.value[i], "isBrand")
        /\ ~C16_Carries(gdRet.value[i], "hasRestrictions")

(***************************************************************************)
(* Claims about what getTLDsWithStatusPeriods and getTLDInfoFromIANADB     *)
(* reject.                                                                 *)
(***************************************************************************)
\* C17: getTLDsWithStatusPeriods returns no two records with the same tld:
\* a table in which two rows carry the same label makes it throw
C17_OneRecordPerLabel ==
  StatusReturned =>
    \A i, j \in DOMAIN stRet.value :
      stRet.value[i].tld = stRet.value[j].tld => i = j

\* text is a date in the format 'D MMM YYYY' exactly: a day without leading
\* zero that exists in the month, a month as dayjs writes it, a year of four
\* digits
C18_MatchesDMY(text) ==
  With(Split(text, " "), LAMBDA dmy :
    /\ Len(dmy) = 3
    /\ Len(dmy[1]) \in 1..2 /\ AllDigits(dmy[1]) /\ dmy[1][1] # "0"
    /\ Len(dmy[2]) = 3 /\ MonthOf(dmy[2]) # 0
    /\ dmy[2][1] = ToUpperAscii(dmy[2][1])
    /\ \A i \in 2..3 : dmy[2][i] # ToUpperAscii(dmy[2][i])
    /\ Len(dmy[3]) = 4 /\ AllDigits(dmy[3])
    /\ CivilFromDays(DaysFromCivil(ParseInt(dmy[3]), MonthOf(dmy[2]),
                                   ParseInt(dmy[1])))
       = <<ParseInt(dmy[3]), MonthOf(dmy[2]), ParseInt(dmy[1])>>)

\* C18: when getTLDsWithStatusPeriods has returned, every non-empty open or
\* close cell of the table matched 'D MMM YYYY' exactly, and no period of a
\* record has an open or close that is no date
C18_OnlyStrictDatesReturned ==
  StatusReturned =>
    \A k \in DOMAIN stRet.value :
      /\ \A c \in Range(C11_Candidates(stResp.rows[k])) :
           \A d \in {c[2], c[3]} : d # <<>> => C18_MatchesDMY(d)
      /\ \A i \in DOMAIN stRet.value[k].periods :
           \A p \in {"open", "close"} \cap DOMAIN stRet.value[k].periods[i] :
             stRet.value[k].periods[i][p] # Chars("Invalid Date")

\* C19: when getTLDInfoFromIANADB has returned, every row of the table had
\* exactly three cells, and every record has a type and a sponsor
C19_OnlyThreeCellRowsReturned ==
  (ianaRet # None /\ IanaReturned) =>
    /\ \A k \in DOMAIN ianaResp.rows : Len(ianaResp.rows[k]) = 3
    /\ \A k \in DOMAIN ianaRet.value :
         {"type", "sponsor"} \subseteq DOMAIN ianaRet.value[k]

(***************************************************************************)
(* Claims about the fetches of gTLDInfoFromRegistryAgreement.              *)
(***************************************************************************)
\* the landing page has arrived with an ok response
C20_LandingOk == agPage # None /\ agPage.ok

\* C20: a call fetches the landing page of its gTLD first; it fetches a
\* second URL only once the landing page has arrived ok with the anchor
\* '#agmthtml a', and that URL is the anchor's href on www.icann.org; once
\* the landing page has arrived ok without the anchor the call has thrown an
\* error whose message names the gTLD, with the landing page its only fetch
C20_DocumentFetchFollowsAnchor ==
  /\ Len(agFetches) <= 2
  /\ agFetches # <<>> =>
       agFetches[1]
       = Chars("https://www.icann.org/en/about/agreements/registries/")
         \o agTLD
  /\ Len(agFetches) = 2 =>
       /\ C20_LandingOk
       /\ agPage.page.agmthtml.present
       /\ agFetches[2]
          = Chars("https://www.icann.org") \o agPage.page.agmthtml.href
  /\ (C20_LandingOk /\ ~agPage.page.agmthtml.present) =>
       /\ agPc = "done"
       /\ agRet.kind = "throw"
       /\ Includes(agRet.message, Chars("'#agmthtml a'"))
       /\ Includes(agRet.message, agTLD)
       /\ Len(agFetches) = 1

\* a lookup of xn--3e0b707e has returned after fetching the landing page
\* and then the document its anchor points to
C20_Witness ==
  /\ agPc = "done" /\ agRet.kind = "return"
  /\ agTLD = Chars("xn--3e0b707e")
  /\ agFetches
     = << Chars("https://www.icann.org/en/about/agreements/registries/xn--3e0b707e"),
          Chars("https://www.icann.org/sites/default/files/tlds/kr/kr-agmt-html.htm") >>

(***************************************************************************)
(* The fan-out of getTLDData on its own: mapLimit(tlds, 5, ...) over up to *)
(* MaxLookups generic records without an entry in manualData, with every   *)
(* registry agreement lookup taken as one step.                            *)
(***************************************************************************)
\* the records tlds holds at line 404: generic, without a status row
FanOutRecords(n) ==
  [k \in 1..n |->
     ("tld" :> <<"g", SubSeq("123456789", k, k)>>) @@ ("type" :> Generic) @@
     ("isNotInGeneralAvailability" :> "false")]

\* what a lookup may return
\* the landing page of a lookup that fails
FanOutNotFound ==
  [ok |-> FALSE, status |-> 404, statusText |-> Chars("Not Found")]

FanOutInfos ==
  {[hasSpec13 |-> TRUE, hasSpec12 |-> FALSE, hasSpec9Exemption |-> FALSE]}

\* mapLimit is called with n records and no prevData: the first iteratees
\* are started; with no record at all mapLimit is done at once
FanOutStart(n) ==
  LET started == Replenish(FanOutRecords(n), [i \in 1..n |-> "waiting"],
                           manualData(<<>>))
  IN /\ tlds' = started.tlds
     /\ gdTask' = started.task
     /\ gdInfo' = [i \in 1..n |-> None]
     /\ IF n = 0
        THEN gdPc' = "done" /\ gdRet' = Return(started.tlds)
        ELSE gdPc' = "agreements" /\ UNCHANGED gdRet

\* getTLDData reaches mapLimit with these records and no prevData: the
\* first iteratees are started
FanOutCall ==
  /\ gdPc = "idle" /\ cliPc = "idle"
  /\ \E n \in 0..MaxLookups : FanOutStart(n)
  /\ prevData' = <<>>
  /\ cliPc' = "awaiting"
  /\ UNCHANGED <<gdZone, gdIana, gdStatus, gdNow, gdFetches, extractorVars,
                 fetchVars, stdout>>

\* the lookup of record i ends: gTLDInfoFromRegistryAgreement throws, or
\* returns info and the record takes isBrand and hasRestrictions from it
FanOutLookupEnds(i) ==
  /\ gdTask[i] = "yield"
  /\ \/ /\ IterateeThrows(i, AgreementLanding(tlds[i].tld, FanOutNotFound))
        /\ UNCHANGED <<tlds, gdInfo>>
     \/ \E info \in FanOutInfos :
          /\ gdTask' = [gdTask EXCEPT ![i] = "settling"]
          /\ gdInfo' = [gdInfo EXCEPT ![i] = info]
          /\ tlds' = [tlds EXCEPT ![i] = Assign(@, AgreementFlags(info))]
          /\ UNCHANGED <<gdPc, gdRet>>
  /\ UNCHANGED <<prevData, gdZone, gdIana, gdStatus, gdNow, gdFetches,
                 notGdVars>>

NextFanOut ==
  \/ FanOutCall
  \/ \E i \in DOMAIN gdTask : FanOutLookupEnds(i)
  \/ \E i \in DOMAIN gdTask : IterateeSettles(i)
  \/ CliResumes

SpecFanOut == Init /\ [][NextFanOut]_vars

(***************************************************************************)
(* Claims about the fan-out.                                               *)
(***************************************************************************)
\* the records whose registry agreement lookup is in progress
C21_LookupsInProgress ==
  {i \in DOMAIN gdTask : gdTask[i] \in {"yield", "landing", "document"}}

\* C21: at most 5 registry agreement lookups are in progress at a time
C21_AtMostFiveLookups == Cardinality(C21_LookupsInProgress) <= 5

\* five lookups are in progress while a sixth record waits for its turn
C21_Witness ==
  /\ Cardinality(C21_LookupsInProgress) = 5
  /\ \E i \in DOMAIN gdTask : gdTask[i] = "waiting"

\* no iteratee is running any more
C22_Quiescent ==
  \A i \in DOMAIN gdTask : gdTask[i] \in {"waiting", "done", "failed"}

\* C22: a lookup that fails aborts only itself: when the fan-out has come
\* to rest, every record whose own lookup has not failed has had its lookup
\* started and completed, and carries the isBrand and hasRestrictions it
\* found
C22_FailureIsLocal ==
  (C22_Quiescent /\ \E i \in DOMAIN gdTask : gdTask[i] = "failed") =>
    \A j \in DOMAIN gdTask :
      gdTask[j] # "failed" =>
        /\ gdTask[j] = "done"
        /\ gdInfo[j] # None
        /\ tlds[j].isBrand = AgreementFlags(gdInfo[j]).isBrand
        /\ tlds[j].hasRestrictions = AgreementFlags(gdInfo[j]).hasRestrictions

\* record t has property p in both states, with the same value, or in neither
C23_Keeps(j, p) ==
  /\ (p \in DOMAIN tlds[j]) <=> (p \in DOMAIN tlds'[j])
  /\ p \in DOMAIN tlds[j] => tlds'[j][p] = tlds[j][p]

\* a step of the fan-out (or the step that starts it, for tld and type)
\* keeps what the tasks must not touch
C23_Frame ==
  gdPc \in {"status", "agreements", "done"} =>
    /\ prevData' = prevData
    /\ (DOMAIN tlds') = (DOMAIN tlds)
    /\ \A j \in DOMAIN tlds :
         /\ C23_Keeps(j, "tld") /\ C23_Keeps(j, "type")
         /\ gdPc # "status" =>
              /\ C23_Keeps(j, "periods")
              /\ C23_Keeps(j, "isNotInGeneralAvailability")
              /\ (DOMAIN tlds'[j]) \subseteq
                   ((DOMAIN tlds[j]) \cup {"isBrand", "hasRestrictions"})
              /\ tlds'[j] # tlds[j] => gdTask'[j] # gdTask[j]

\* C23: every step of the fan-out (and the step that starts it, for tld and
\* type) keeps the number of records, every record's tld, type, periods and
\* isNotInGeneralAvailability, and prevData, of which the override table is
\* made; what it adds to a record is isBrand and hasRestrictions only, and it
\* changes no record but those whose own task takes a step
C23_TaskWritesOwnFlagsOnly == [][C23_Frame]_vars

\* the lookup of one record has written its flags while the lookup of
\* another is still in progress
C23_Witness ==
  \E i, j \in DOMAIN gdTask :
    /\ gdTask[i] = "settling" /\ gdInfo[i] # None
    /\ "isBrand" \in DOMAIN tlds[i]
    /\ gdTask[j] \in {"landing", "document"}
    /\ "isBrand" \notin DOMAIN tlds[j]

(***************************************************************************)
(* Claims about the order of getTLDData's sources.                         *)
(***************************************************************************)
\* what has been fetched so far was fetched in order: an IANA response only
\* with an ok root zone response, a status response only with an ok IANA
\* response and typed records, registry agreement fetches only with an ok
\* status response and the status periods merged
C24_Order ==
  /\ gdIana # None => (gdZone # None /\ gdZone.ok)
  /\ gdStatus # None =>
       /\ gdIana # None /\ gdIana.ok
       /\ \A i \in DOMAIN tlds : "type" \in DOMAIN tlds[i]
  /\ gdFetches # <<>> =>
       /\ gdStatus # None /\ gdStatus.ok
       /\ \A i \in DOMAIN tlds :
            (tlds[i].type = Generic /\ tlds[i].tld \notin OriginalGenerics) =>
              "isNotInGeneralAvailability" \in DOMAIN tlds[i]

\* a step that moves getTLDData on to its next source follows the return of
\* the extractor before
C24_Step ==
  /\ C24_Order'
  /\ (gdPc # "iana" /\ gdPc' = "iana") =>
       (getTLDsFromRootZone(gdZone').kind = "return" /\ gdIana' = None)
  /\ (gdPc # "status" /\ gdPc' = "status") =>
       (getTLDInfoFromIANADB(gdIana').kind = "return" /\ gdStatus' = None)
  /\ (gdPc # "agreements" /\ gdPc' = "agreements") =>
       /\ gdPc = "status"
       /\ getTLDsWithStatusPeriods(gdStatus', gdNow').kind = "return"
       /\ gdFetches' = <<>>

\* C24: getTLDData takes its sources in the order root zone, IANA, status
\* periods, registry agreements: it moves on to a source only when the
\* extractor of the source before has returned, and a registry agreement
\* fetch is issued only after the status extractor has returned and its
\* periods are merged into the records
C24_SourcesInOrder == [][C24_Step]_vars

\* a registry agreement fetch has been issued for a record that carries the
\* periods of its status row
C24_Witness ==
  \E k \in DOMAIN gdFetches :
    /\ "periods" \in DOMAIN tlds[gdFetches[k].task]
    /\ tlds[gdFetches[k].task].periods # <<>>

(***************************************************************************)
(* Claims about utils.js fetch.                                            *)
(***************************************************************************)
\* C25: a call of utils.js fetch makes at most 4 retries, 5 attempts in
\* all, and the delays of its retries are, in order, 10000, 30000, 90000
\* and 270000 ms, each longer than the one before
C25_FourRetriesTripledDelays ==
  fSite = ResilientSite =>
    /\ fAttempt <= 4
    /\ Len(fLog) <= 5
    /\ Len(fDelays) <= 4
    /\ fDelays = SubSeq(<<10000, 30000, 90000, 270000>>, 1, Len(fDelays))
    /\ \A n \in 1..(Len(fDelays) - 1) : fDelays[n] < fDelays[n + 1]

\* a call has ended after five attempts, the last one answered 503
C25_Witness ==
  /\ fSite = ResilientSite /\ fPc = "done"
  /\ Len(fLog) = 5 /\ fLog[5] = HTTPResponse(503)
  /\ fDelays = <<10000, 30000, 90000, 270000>>

(***************************************************************************)
(* Claims about a response that is not ok.                                 *)
(***************************************************************************)
\* the final responses of the extractors getTLDData has awaited so far
C26_Responses == {gdZone, gdIana, gdStatus} \ {None}

\* C26: once an extractor of getTLDData got a final response that is not
\* ok, the run has failed with an error whose message carries the HTTP
\* status and the status text of that response
C26_FetchFailureCarriesStatus ==
  \A resp \in C26_Responses :
    ~resp.ok =>
      /\ gdRet # None /\ gdRet.kind = "throw"
      /\ Includes(gdRet.message, Chars(ToString(resp.status)))
      /\ Includes(gdRet.message, resp.statusText)

(***************************************************************************)
(* Claims about the result of getTLDData as a function of what it is given.*)
(***************************************************************************)
\* record o after the fourth step, taken on its own: info is what the lookup
\* of its label found
C27_Flagged(o, manual, info) ==
  IF o.tld \in DOMAIN manual THEN manual[o.tld] @@ o
  ELSE IF o.type = Generic
    THEN ("isBrand" :> JSBool(info.hasSpec13 \/ info.hasSpec9Exemption))
         @@ ("hasRestrictions" :> JSBool(info.hasSpec12)) @@ o
  ELSE o

\* the collection computed one source after the other and one record after
\* the other from the documents, the instant and prevData of the run
C27_Sequential ==
  With(getTLDsFromRootZone(gdZone).value, LAMBDA zone :
    With(getTLDInfoFromIANADB(gdIana).value, LAMBDA iana :
      With(getTLDsWithStatusPeriods(gdStatus, gdNow).value, LAMBDA status :
        With(JoinStatus(JoinIana(InitialRecords(zone), iana).value, status),
             LAMBDA joined :
          [i \in DOMAIN joined |->
             C27_Flagged(joined[i], manualData(prevData), gdInfo[i])]))))

\* C27: the collection getTLDData returns is determined by the upstream
\* documents, the instant and prevData of the run, whatever the order in
\* which the lookups were started and completed
C27_ResultIsFunctionOfInputs ==
  GDReturned => gdRet.value = C27_Sequential

\* a collection was returned after two lookups of which the one started
\* later was the first to fetch its agreement document
C27_Witness ==
  /\ GDReturned /\ Len(gdFetches) = 4
  /\ gdFetches[1].task < gdFetches[2].task
  /\ gdFetches[3].task = gdFetches[2].task

(***************************************************************************)
(* Claims about the comma-separated fields of the other periods.           *)
(***************************************************************************)
\* the number of comma-separated entries of cell c of a row
C28_Entries(row, c) == Len(Split(C11_Cell(row, c), ","))

\* the row names other periods and has all four of their fields
C28_NamesOthers(row) == Len(row) >= 10 /\ C11_Cell(row, 8) # <<>>

\* the indices of the From entries for which the From or the To entry of
\* the same index holds a date text
C28_DatedIndices(row) ==
  SelectSeq([idx \in 1..C28_Entries(row, 7) |-> idx],
            LAMBDA idx : C11_Entry(row, 7, idx) # <<>>
                         \/ C11_Entry(row, 9, idx) # <<>>)

\* period p is built from the entries of index idx of the four fields
C28_BuiltFrom(p, row, idx) ==
  /\ p.name = C11_Entry(row, 8, idx)
  /\ ("open" \in DOMAIN p) <=> (C11_Entry(row, 7, idx) # <<>>)
  /\ "open" \in DOMAIN p
       => p.open = formatYMD(dayjsParse(C11_Entry(row, 7, idx)))
  /\ ("close" \in DOMAIN p) <=> (C11_Entry(row, 9, idx) # <<>>)
  /\ "close" \in DOMAIN p
       => p.close = formatYMD(dayjsParse(C11_Entry(row, 9, idx)))
  /\ ("type" \in DOMAIN p) <=> (C11_Entry(row, 10, idx) # <<>>)
  /\ "type" \in DOMAIN p => p.type = C11_Entry(row, 10, idx)

\* the periods of a record that follow Sunrise and Trademark Claims
C28_Others(row, periods) ==
  SubSeq(periods,
         Len(periods) - Len(C28_DatedIndices(row)) + 1, Len(periods))

\* C28: a row that names other periods and whose Name, To or Type field has
\* fewer entries than its From field makes getTLDsWithStatusPeriods fail;
\* in a returned record the other periods are, in order, those of the From
\* entries with a date, each built from the entries of that same index of
\* From, Name, To and Type, entries beyond the last From entry being ignored
C28_OtherPeriodsByIndex ==
  (stRet # None /\ stResp.ok) =>
    \A k \in DOMAIN stResp.rows :
      \E row \in {stResp.rows[k]} :
        C28_NamesOthers(row) =>
          /\ (\E c \in 8..10 : C28_Entries(row, c) < C28_Entries(row, 7))
               => stRet.kind = "throw"
          /\ StatusReturned =>
               \E at \in {C28_DatedIndices(row)} :
               \E others \in {C28_Others(row, stRet.value[k].periods)} :
                 /\ Len(stRet.value[k].periods) >= Len(at)
                 /\ \A i \in DOMAIN at : C28_BuiltFrom(others[i], row, at[i])

\* a response was parsed in which one row has two From entries, both built
\* into periods, and another row has more Name, To and Type entries than
\* From entries and yielded one other period
C28_Witness ==
  /\ StatusReturned
  /\ \E j, k \in DOMAIN stResp.rows :
       /\ C28_Entries(stResp.rows[j], 7) = 2
       /\ Len(C28_Others(stResp.rows[j], stRet.value[j].periods)) = 2
       /\ C28_Entries(stResp.rows[k], 7) = 1
       /\ \A c \in 8..10 : C28_Entries(stResp.rows[k], c) = 2
       /\ Len(C28_Others(stResp.rows[k], stRet.value[k].periods)) = 1

(***************************************************************************)
(* Claims about prevData as readPrevious builds it.                        *)
(***************************************************************************)
\* the labels of an earlier output
C29_Labels(inObj) == {inObj[k].tld : k \in DOMAIN inObj}

\* the labels of an earlier output whose record has neither flag
C29_Flagless(inObj) ==
  {inObj[k].tld : k \in {j \in DOMAIN inObj :
     DOMAIN inObj[j] \cap {"isBrand", "hasRestrictions"} = {}}}

\* C29: in a run whose prevData readPrevious made of an earlier output,
\* every label of that output has an entry in prevData, a lookup is only
\* made for a generic record whose label the earlier output lacks, and the
\* record written for a label whose earlier record had neither isBrand nor
\* hasRestrictions has neither
C29_PriorLabelsAreNotLookedUp ==
  gdPc # "idle" =>
    \A inObj \in PriorOutputs :
      prevData = readPrevious(inObj) =>
        /\ C29_Labels(inObj) \subseteq DOMAIN prevData
        /\ \A k \in DOMAIN gdFetches :
             /\ tlds[gdFetches[k].task].type = Generic
             /\ tlds[gdFetches[k].task].tld \notin C29_Labels(inObj)
        /\ GDReturned =>
             \A i \in DOMAIN gdRet.value :
               gdRet.value[i].tld \in C29_Flagless(inObj) =>
                 /\ gdInfo[i] = None
                 /\ DOMAIN JSONStringify(gdRet.value)[i]
                      \cap {"isBrand", "hasRestrictions"} = {}

\* a run has returned in which a generic label whose earlier record had
\* neither flag was not looked up while another generic label was
C29_Witness ==
  /\ GDReturned /\ gdFetches # <<>>
  /\ \E inObj \in PriorOutputs :
       /\ prevData = readPrevious(inObj)
       /\ \E i \in DOMAIN gdRet.value :
            /\ gdRet.value[i].tld \in C29_Flagless(inObj)
            /\ gdRet.value[i].type = Generic
            /\ gdInfo[i] = None

(***************************************************************************)
(* A run of getTLDData whose awaited fetches are made attempt by attempt.  *)
(***************************************************************************)
\* the pcs at which getTLDData awaits an extractor
AwaitingExtractor == {"rootzone", "iana", "status"}

\* the call of fetch getTLDData is awaiting at pc
LiveSite(pc) ==
  CASE pc = "rootzone" -> "getTLDsFromRootZone"
    [] pc = "iana" -> "getTLDInfoFromIANADB"
    [] pc = "status" -> "getTLDsWithStatusPeriods"

\* Response.ok of node-fetch: the status is in the range 200-299
ResponseOk(outcome) == outcome.status \in 200..299

\* the most records of a run that is followed attempt by attempt
MaxLiveRecords == 2

\* main() calls getTLDData() without --stdin
LiveCall == GetTLDDataCall /\ prevData' = <<>>

\* the extractor getTLDData awaits calls fetch(url): a new call starts with
\* attempt 0
LiveFetchCall ==
  /\ gdPc \in AwaitingExtractor
  /\ fPc \in {"idle", "done"} /\ fSite # LiveSite(gdPc)
  /\ fSite' = LiveSite(gdPc)
  /\ fPc' = "attempt" /\ fAttempt' = 0 /\ fLog' = <<>> /\ fDelays' = <<>>
  /\ fRet' = None
  /\ UNCHANGED notFetchVars

\* the fetch of the awaited extractor has finished
LiveFetched == fPc = "done" /\ fSite = LiveSite(gdPc)

\* fetch has rejected (every attempt failed): `await fetch(...)` throws in
\* the extractor, and getTLDData, which awaits it without a catch, rejects
LiveAwaitRejects ==
  /\ gdPc \in AwaitingExtractor /\ LiveFetched
  /\ fRet.kind = "throw"
  /\ gdPc' = "done" /\ gdRet' = fRet
  /\ UNCHANGED <<prevData, gdZone, gdIana, gdStatus, gdNow, tlds, gdTask,
                 gdInfo, gdFetches, notGdVars>>

\* fetch has resolved and the awaited extractor throws: always on a response
\* that is not ok, and on one that is when the document makes it throw;
\* getTLDData rejects
LiveExtractorThrows ==
  /\ gdPc \in AwaitingExtractor /\ LiveFetched /\ fRet.kind = "return"
  /\ gdPc' = "done"
  /\ \/ /\ ~ResponseOk(fRet.value)
        /\ gdRet' = Throw(FetchFailedMessage(Chars("Fetch"), fRet.value))
     \/ /\ ResponseOk(fRet.value)
        /\ gdRet' = Throw("TypeError")
  /\ UNCHANGED <<prevData, gdZone, gdIana, gdStatus, gdNow, tlds, gdTask,
                 gdInfo, gdFetches, notGdVars>>

\* fetch has resolved with a response that is ok and getTLDsFromRootZone or
\* getTLDInfoFromIANADB returns: getTLDData awaits the next extractor
LiveExtractorReturns ==
  /\ gdPc \in {"rootzone", "iana"} /\ LiveFetched /\ fRet.kind = "return"
  /\ ResponseOk(fRet.value)
  /\ gdPc' = IF gdPc = "rootzone" THEN "iana" ELSE "status"
  /\ UNCHANGED <<prevData, gdZone, gdIana, gdStatus, gdNow, tlds, gdTask,
                 gdInfo, gdFetches, gdRet, notGdVars>>

\* fetch has resolved with a response that is ok and
\* getTLDsWithStatusPeriods returns: mapLimit is called with the records
LiveFanOutStarts ==
  /\ gdPc = "status" /\ LiveFetched /\ fRet.kind = "return"
  /\ ResponseOk(fRet.value)
  /\ \E n \in 0..MaxLiveRecords : FanOutStart(n)
  /\ UNCHANGED <<prevData, gdZone, gdIana, gdStatus, gdNow, gdFetches,
                 notGdVars>>

NextLive ==
  \/ LiveCall
  \/ LiveFetchCall
  \/ FetchAttemptEnds
  \/ FetchRetry
  \/ LiveAwaitRejects
  \/ LiveExtractorThrows
  \/ LiveExtractorReturns
  \/ LiveFanOutStarts
  \/ \E i \in DOMAIN gdTask : FanOutLookupEnds(i)
  \/ \E i \in DOMAIN gdTask : IterateeSettles(i)
  \/ CliResumes

\* every attempt under way ends and every timer set fires (the
\* assumption), and the event loop does not idle while a continuation is
\* ready: the program does not stop while a step of it can be taken
FairLive == WF_vars(NextLive)

SpecLive == Init /\ [][NextLive]_vars /\ FairLive

(***************************************************************************)
(* Claims about termination.                                               *)
(***************************************************************************)
\* C30: when every attempt ends, no call of fetch makes more than 5
\* attempts, every call of fetch that was started settles, and every run of
\* getTLDData that was started returns or fails
C30_EveryRunEnds ==
  /\ [](Len(fLog) <= 5)
  /\ (fPc = "attempt") ~> (fPc = "done")
  /\ (gdPc # "idle") ~> (gdRet # None)

\* a run has failed because every attempt of the status periods' fetch ended
\* in a network failure
C30_Witness ==
  /\ gdPc = "done" /\ gdRet # None /\ gdRet.kind = "throw"
  /\ fSite = "getTLDsWithStatusPeriods" /\ fPc = "done" /\ fRet.kind = "throw"
  /\ Len(fLog) = 4
  /\ \A k \in DOMAIN fLog : fLog[k] = NetworkFailure

====
